---- MODULE Spec2Model ----
(***************************************************************************)
(* vind backend: the PostgresClient gateway (service/postgre.go), the      *)
(* identifier validator (helper/common.go) and the HTTP handlers that      *)
(* share the process-wide activeDB slot (handler/*.go).                    *)
(*                                                                         *)
(* Strings that the code parses (identifiers, filters, limits, operators)  *)
(* are sequences of one-character strings, so that validation, splitting   *)
(* and upper-casing are computed and not assumed.                          *)
(***************************************************************************)
EXTENDS Integers, Sequences, FiniteSets, TLC

VARIABLES clients, handles, activeDB, connecting, last

vars == <<clients, handles, activeDB, connecting, last>>

\* ------------------------------------------------------------------ bounds

\* longest string handed to IsValidIdentifier in SpecIdent
MaxLen == 3
\* PostgresClient values one server run allocates (ConnectHandler calls)
MaxClients == 2
\* sql.DB handles opened in one run
MaxHandles == 2
\* keys in a data / where / conditions map
MaxKeys == 2
\* entries in a filter list, a column list or an operation list
MaxItems == 2

\* ------------------------------------------------------------- characters

LowerSeq == <<"a","b","c","d","e","f","g","h","i","j","k","l","m",
              "n","o","p","q","r","s","t","u","v","w","x","y","z">>
UpperSeq == <<"A","B","C","D","E","F","G","H","I","J","K","L","M",
              "N","O","P","Q","R","S","T","U","V","W","X","Y","Z">>
DigitSeq == <<"0","1","2","3","4","5","6","7","8","9">>

IndexIn(seq, c) == CHOOSE i \in 1..Len(seq) : seq[i] = c
IsIn(seq, c) == \E i \in 1..Len(seq) : seq[i] = c

\* the byte value of a character
Ord(c) ==
  IF IsIn(LowerSeq, c) THEN 96 + IndexIn(LowerSeq, c)
  ELSE IF IsIn(UpperSeq, c) THEN 64 + IndexIn(UpperSeq, c)
  ELSE IF IsIn(DigitSeq, c) THEN 47 + IndexIn(DigitSeq, c)
  ELSE CASE c = "\n" -> 10
         [] c = " " -> 32
         [] c = "!" -> 33
         [] c = "\"" -> 34
         [] c = "(" -> 40
         [] c = ")" -> 41
         [] c = "*" -> 42
         [] c = "+" -> 43
         [] c = "-" -> 45
         [] c = "." -> 46
         [] c = ":" -> 58
         [] c = ";" -> 59
         [] c = "<" -> 60
         [] c = "=" -> 61
         [] c = ">" -> 62
         [] c = "_" -> 95

\* --------------------------------------------------- helper.IsValidIdentifier

\* a variant of HeadClass that lets a digit start the name
HeadClassWithDigits(c) ==
  LET n == Ord(c) IN n \in 97..122 \/ n \in 65..90 \/ n \in 48..57 \/ n = 95
\* one step of the automaton of ^[a-zA-Z_][a-zA-Z0-9_]*$ : the character
\* classes are the byte ranges of the pattern
HeadClass(c) ==
  LET n == Ord(c) IN n \in 97..122 \/ n \in 65..90 \/ n = 95
BodyClass(c) ==
  LET n == Ord(c) IN n \in 97..122 \/ n \in 65..90 \/ n \in 48..57 \/ n = 95

\* the pattern matched against s from position i on, having consumed the head
\* iff i > 1; "$" (no multi-line flag) matches only at the end of the text
RECURSIVE MatchFrom(_, _)
MatchFrom(s, i) ==
  IF i > Len(s) THEN i > 1
  ELSE IF i = 1 THEN HeadClass(s[1]) /\ MatchFrom(s, 2)
  ELSE BodyClass(s[i]) /\ MatchFrom(s, i + 1)

IsValidIdentifier(s) == MatchFrom(s, 1)

\* ------------------------------------------------------- strings, strconv

SubStr(s, a, b) == IF a > b THEN <<>> ELSE SubSeq(s, a, b)

\* strings.ToUpper, byte by byte
ToUpperChar(c) == IF Ord(c) \in 97..122 THEN UpperSeq[Ord(c) - 96] ELSE c
ToUpper(s) == [i \in 1..Len(s) |-> ToUpperChar(s[i])]

IsSpace(c) == Ord(c) = 32 \/ Ord(c) = 10

\* strings.TrimSpace
RECURSIVE TrimLeft(_)
TrimLeft(s) == IF s # <<>> /\ IsSpace(Head(s)) THEN TrimLeft(Tail(s)) ELSE s
RECURSIVE TrimRight(_)
TrimRight(s) ==
  IF s # <<>> /\ IsSpace(s[Len(s)]) THEN TrimRight(SubStr(s, 1, Len(s) - 1)) ELSE s
TrimSpace(s) == TrimRight(TrimLeft(s))

\* a variant of HasPrefix that finds p anywhere in s
HasPrefixAnywhere(s, p) ==
  \E i \in 1..(Len(s) - Len(p) + 1) : SubStr(s, i, i + Len(p) - 1) = p

\* strings.HasPrefix
HasPrefix(s, p) == Len(s) >= Len(p) /\ SubStr(s, 1, Len(p)) = p

\* strings.Index for a one-byte separator: 0 when absent
IndexOf(s, c) ==
  IF \E i \in 1..Len(s) : s[i] = c
  THEN CHOOSE i \in 1..Len(s) : s[i] = c /\ \A j \in 1..(i - 1) : s[j] # c
  ELSE 0

\* strings.SplitN(s, sep, n) for a one-byte sep: at most n parts, the last one
\* the unsplit remainder
RECURSIVE SplitN(_, _, _)
SplitN(s, sep, n) ==
  IF n = 1 \/ IndexOf(s, sep) = 0 THEN <<s>>
  ELSE <<SubStr(s, 1, IndexOf(s, sep) - 1)>>
         \o SplitN(SubStr(s, IndexOf(s, sep) + 1, Len(s)), sep, n - 1)

IsDigit(c) == Ord(c) \in 48..57

RECURSIVE DigitsValue(_)
DigitsValue(s) ==
  IF s = <<>> THEN 0
  ELSE 10 * DigitsValue(SubStr(s, 1, Len(s) - 1)) + (Ord(s[Len(s)]) - 48)

\* strconv.Atoi: an optional sign, then one or more decimal digits
Atoi(s) ==
  LET signed == s # <<>> /\ (s[1] = "-" \/ s[1] = "+")
      digits == IF signed THEN Tail(s) ELSE s
  IN IF digits = <<>> \/ \E i \in 1..Len(digits) : ~IsDigit(digits[i])
     THEN [ok |-> FALSE, n |-> 0]
     ELSE [ok |-> TRUE,
           n |-> IF signed /\ s[1] = "-" THEN 0 - DigitsValue(digits)
                 ELSE DigitsValue(digits)]

\* pq.QuoteIdentifier: the name between double quotes, each embedded double
\* quote doubled
RECURSIVE DoubleQuotes(_)
DoubleQuotes(s) ==
  IF s = <<>> THEN <<>>
  ELSE (IF Head(s) = "\"" THEN <<"\"", "\"">> ELSE <<Head(s)>>) \o DoubleQuotes(Tail(s))
QuoteIdentifier(name) == <<"\"">> \o DoubleQuotes(name) \o <<"\"">>

\* ------------------------------------------------------------- SQL text

\* The text of a statement is a sequence of segments, each remembering where
\* it came from:
\*   kw     text of the code's own format string
\*   ident  a caller-supplied schema, table or column name (name: as supplied,
\*          s: as it stands in the text)
\*   op     a comparison operator taken from a filter
\*   expr   a caller-supplied type or default expression
\*   ph     the placeholder $n
\*   lit    a caller-supplied data value written into the text
Seg(k, kw, name, s, n) == [k |-> k, kw |-> kw, name |-> name, s |-> s, n |-> n]
Kw(text) == Seg("kw", text, <<>>, <<>>, 0)
Raw(name) == Seg("ident", "", name, name, 0)
Quoted(name) == Seg("ident", "", name, QuoteIdentifier(name), 0)
Op(o) == Seg("op", "", <<>>, o, 0)
Expr(e) == Seg("expr", "", <<>>, e, 0)
Ph(n) == Seg("ph", "", <<>>, <<>>, n)

\* strings.Join over pieces of text
RECURSIVE Join(_, _)
Join(parts, sep) ==
  IF parts = <<>> THEN <<>>
  ELSE IF Len(parts) = 1 THEN parts[1]
  ELSE parts[1] \o <<Kw(sep)>> \o Join(Tail(parts), sep)

\* the values handed to the driver next to the text
StrArg(s) == [t |-> "str", s |-> s, n |-> 0, j |-> ""]
IntArg(n) == [t |-> "int", s |-> <<>>, n |-> n, j |-> ""]
JsonArg(v) == [t |-> "json", s |-> <<>>, n |-> 0, j |-> v]

\* ------------------------------------------------------------ results

\* the nil *sql.DB of a client that never opened a handle
NilDB == 0

\* an error value: its own message, the name it quotes, the engine error it
\* carries or wraps
NoErr == [msg |-> "", arg |-> <<>>, cause |-> ""]
Err(msg) == [msg |-> msg, arg |-> <<>>, cause |-> ""]
ErrArg(msg, arg) == [msg |-> msg, arg |-> arg, cause |-> ""]
EngineErr(cause) == [msg |-> "", arg |-> <<>>, cause |-> cause]
Wrap(msg, e) == [msg |-> msg, arg |-> <<>>, cause |-> e.cause]

\* what the engine answers when it fails a statement, and what database/sql
\* answers on a closed handle
EngineMsg == "pq: engine error"
ClosedMsg == "sql: database is closed"

\* the value part of a return: columns and rows of a result set, names of a
\* listing, the affected-row count
Val(columns, rows, count) == [columns |-> columns, rows |-> rows, count |-> count]
NoVal == Val(<<>>, <<>>, 0)

\* what a gateway method did: the error and value it returned, whether it
\* panicked instead, and the call it made on its handle (none, or one)
Ret(err, val, call) == [err |-> err, val |-> val, panic |-> FALSE, call |-> call]
Fail(err) == Ret(err, NoVal, <<>>)

\* p.db.Query / p.db.Exec of database/sql: on a nil handle the call panics
\* (nil pointer dereference); on a closed handle it returns an error without
\* any I/O; on an open one the statement goes to the engine, which answers eng
DbCall(db, sql, args, eng) ==
  IF db = NilDB
  THEN [err |-> NoErr, val |-> NoVal, panic |-> TRUE, call |-> <<>>]
  ELSE IF ~handles[db].open
  THEN Ret(EngineErr(ClosedMsg), NoVal,
           <<[handle |-> db, io |-> FALSE, via |-> "exec", sql |-> sql, args |-> args]>>)
  ELSE Ret(IF eng = "fail" THEN EngineErr(EngineMsg) ELSE NoErr, NoVal,
           <<[handle |-> db, io |-> TRUE, via |-> "exec", sql |-> sql, args |-> args]>>)

\* p.db.Query: the same call, made for a result set
DbQuery(db, sql, args, eng) ==
  LET r == DbCall(db, sql, args, eng)
  IN [r EXCEPT !.call = [i \in 1..Len(r.call) |-> [r.call[i] EXCEPT !.via = "query"]]]

\* ----------------------------------------------- reading a result set

\* a value of a result row, with the column of the result it belongs to
Cell(col, v) == [col |-> col, v |-> v]
ResultColumns == <<"id", "name">>
ResultRows ==
  << <<Cell("id", "1"), Cell("name", "ann")>>, <<Cell("id", "2"), Cell("name", "bob")>> >>

\* the result set the engine holds for an accepted query: two columns and two
\* rows, or no row at all, or one column and three rows
EngineColumns(eng) == IF eng = "onecol" THEN <<"n">> ELSE ResultColumns
EngineRows(eng) ==
  IF eng = "norows" THEN <<>>
  ELSE IF eng = "onecol"
  THEN << <<Cell("n", "1")>>, <<Cell("n", "2")>>, <<Cell("n", "3")>> >>
  ELSE ResultRows
ScanMsg == "sql: scan error"

\* a variant of ScanAll that reads two values from every row
ScanAllTwoWide(r, eng) ==
  IF r.panic \/ r.err # NoErr THEN r
  ELSE IF eng = "scanfail" THEN Ret(EngineErr(ScanMsg), NoVal, r.call)
  ELSE LET cells == EngineRows(eng)
       IN Ret(NoErr,
              Val(EngineColumns(eng),
                  [n \in 1..Len(cells) |->
                     [i \in 1..2 |-> IF i <= Len(cells[n]) THEN cells[n][i]
                                     ELSE Cell("", "nil")]], 0),
              r.call)

\* the for rows.Next() loop: values := make([]any, len(columns)), one pointer
\* per value, rows.Scan, append. Each row read has one value per column of
\* rows.Columns(); with eng = "scanfail" the Scan of the last row fails, the
\* rows before it having been appended to results.
ScanLoop(columns, cells, eng) ==
  LET failAt == IF eng = "scanfail" THEN Len(cells) ELSE 0
      done == IF failAt = 0 THEN Len(cells) ELSE failAt - 1
  IN [err |-> IF failAt = 0 THEN NoErr ELSE EngineErr(ScanMsg),
      results |-> [n \in 1..done |-> [i \in 1..Len(columns) |-> cells[n][i]]]]

\* a variant of ScanAll that returns, with a scan error, the columns and the
\* rows read before it
ScanAllKeepingRead(r, eng) ==
  IF r.panic \/ r.err # NoErr THEN r
  ELSE LET columns == EngineColumns(eng)
           read == ScanLoop(columns, EngineRows(eng), eng)
       IN Ret(read.err, Val(columns, read.results, 0), r.call)

\* rows.Columns() and the loop after a Query: return nil, nil, err on a failed
\* Scan, else return columns, results, nil
ScanAll(r, eng) ==
  IF r.panic \/ r.err # NoErr THEN r
  ELSE LET columns == EngineColumns(eng)
           read == ScanLoop(columns, EngineRows(eng), eng)
       IN IF read.err # NoErr THEN Ret(read.err, NoVal, r.call)
          ELSE Ret(NoErr, Val(columns, read.results, 0), r.call)

\* rows.Next()/rows.Scan(&name) of the listings: one column per row
ScanNames(r, eng) ==
  IF r.panic \/ r.err # NoErr THEN r
  ELSE IF eng = "scanfail" THEN Ret(EngineErr(ScanMsg), NoVal, r.call)
  ELSE Ret(NoErr, Val(<<>>, <<<<"users">>, <<"orders">>>>, 0), r.call)

\* result.RowsAffected() after an Exec
Affected(r) ==
  IF r.panic \/ r.err # NoErr THEN r
  ELSE Ret(NoErr, Val(<<>>, <<>>, 1), r.call)

\* ------------------------------------------------- PostgresClient: reads

PublicSchema == <<"p","u","b","l","i","c">>

ListSchemas(db, eng) ==
  ScanNames(DbQuery(db, <<Kw("SELECT schema_name FROM information_schema.schemata")>>,
                   <<>>, eng), eng)

ListTables(db, schema, eng) ==
  LET s == IF schema = <<>> THEN PublicSchema ELSE schema
  IN ScanNames(DbQuery(db,
       <<Kw("SELECT table_name FROM information_schema.tables WHERE table_schema = "),
         Ph(1)>>,
       <<StrArg(s)>>, eng), eng)

\* sql.NullString / sql.NullBool as Scan fills them: Valid, and the value
Null(valid, v) == [valid |-> valid, v |-> v]

\* the rows the catalog query of ListColumns yields for a table: column_name,
\* data_type, is_nullable, column_default, is_unique, foreign_key
CatalogRows ==
  << [name |-> "id", type |-> "integer", nullable |-> "NO",
      default |-> Null(TRUE, "nextval('t_id_seq'::regclass)"),
      isUnique |-> Null(TRUE, TRUE), foreignKey |-> Null(FALSE, "")],
     [name |-> "note", type |-> "text", nullable |-> "YES",
      default |-> Null(FALSE, ""),
      isUnique |-> Null(TRUE, FALSE), foreignKey |-> Null(FALSE, "")],
     [name |-> "tag", type |-> "text", nullable |-> "YES",
      default |-> Null(TRUE, ""),
      isUnique |-> Null(FALSE, FALSE),
      foreignKey |-> Null(TRUE, "FOREIGN KEY (tag) REFERENCES tags(name)")] >>

\* the model.Column the loop body of ListColumns makes of one row
ColumnOf(row) ==
  [Name |-> row.name, Type |-> row.type,
   Nullable |-> row.nullable = "YES",
   Default |-> IF row.default.valid THEN row.default.v ELSE "",
   IsUnique |-> row.isUnique.valid /\ row.isUnique.v,
   ForeignKey |-> IF row.foreignKey.valid THEN row.foreignKey.v ELSE ""]

\* the rows.Next()/rows.Scan loop of ListColumns
ScanColumns(r, eng) ==
  IF r.panic \/ r.err # NoErr THEN r
  ELSE IF eng = "scanfail" THEN Ret(EngineErr(ScanMsg), NoVal, r.call)
  ELSE Ret(NoErr, Val(<<>>, [i \in 1..Len(CatalogRows) |-> ColumnOf(CatalogRows[i])], 0),
           r.call)

\* the catalog query of ListColumns binds schema as $1 and table as $2
ListColumns(db, schema, table, eng) ==
  ScanColumns(DbQuery(db,
       <<Kw("SELECT ... FROM information_schema.columns c WHERE c.table_schema = "),
         Ph(1), Kw(" AND c.table_name = "), Ph(2),
         Kw(" ORDER BY c.ordinal_position;")>>,
       <<StrArg(schema), StrArg(table)>>, eng), eng)

SelectWord == <<"S","E","L","E","C","T">>

\* the caller's statement, sent as it is
SqlText(sql) == Seg("sql", "", <<>>, sql, 0)

ExecuteQuery(db, sql, eng) ==
  LET trimmed == TrimSpace(ToUpper(sql))
  IN IF ~HasPrefix(trimmed, SelectWord)
     THEN LET r == DbCall(db, <<SqlText(sql)>>, <<>>, eng)
          IN IF r.panic \/ r.err # NoErr THEN r ELSE Ret(NoErr, NoVal, r.call)
     ELSE ScanAll(DbQuery(db, <<SqlText(sql)>>, <<>>, eng), eng)

\* the operators of the switch in GetTableData, after strings.ToUpper
SupportedOps ==
  { <<"L","I","K","E">>, <<"=">>, <<">">>, <<"<">>, <<">","=">>, <<"<","=">> }

\* a variant of FilterStep that puts each new condition in front
FilterStepPrepending(acc, f) ==
  LET parts == SplitN(f, ":", 3)
  IN IF Len(parts) # 3 THEN acc
     ELSE IF ToUpper(parts[2]) \in SupportedOps
     THEN [conds |-> <<<<Quoted(parts[1]), Kw(" "), Op(ToUpper(parts[2])), Kw(" "),
                         Ph(Len(acc.args) + 1)>>>> \o acc.conds,
           args |-> Append(acc.args, StrArg(parts[3]))]
     ELSE acc
\* a variant of FilterStep that keeps a filter whatever its operator
FilterStepKeepingAll(acc, f) ==
  LET parts == SplitN(f, ":", 3)
  IN IF Len(parts) # 3 THEN acc
     ELSE [conds |-> Append(acc.conds,
                       <<Quoted(parts[1]), Kw(" "), Op(ToUpper(parts[2])), Kw(" "),
                         Ph(Len(acc.args) + 1)>>),
           args |-> Append(acc.args, StrArg(parts[3]))]

\* one pass of the filter loop: acc = [conds, args]
FilterStep(acc, f) ==
  LET parts == SplitN(f, ":", 3)
  IN IF Len(parts) # 3 THEN acc
     ELSE LET col == Quoted(parts[1])
              op == ToUpper(parts[2])
              val == parts[3]
          IN IF op \in SupportedOps
             THEN [conds |-> Append(acc.conds,
                               <<col, Kw(" "), Op(op), Kw(" "), Ph(Len(acc.args) + 1)>>),
                   args |-> Append(acc.args, StrArg(val))]
             ELSE acc

RECURSIVE FilterLoop(_, _)
FilterLoop(acc, filters) ==
  IF filters = <<>> THEN acc
  ELSE FilterLoop(FilterStep(acc, Head(filters)), Tail(filters))

\* a variant of SelectStatement that orders by any name supplied
SelectStatementAnyOrder(req, limitInt, offsetInt) ==
  LET built == FilterLoop([conds |-> <<>>, args |-> <<>>], req.filters)
      n == Len(built.args)
      from == <<Kw("SELECT * FROM \""), Raw(req.schema), Kw("\".\""), Raw(req.table),
                Kw("\"")>>
      where == IF Len(built.conds) > 0
               THEN <<Kw(" WHERE ")>> \o Join(built.conds, " AND ") ELSE <<>>
      order == IF req.orderBy # <<>>
               THEN <<Kw(" ORDER BY "), Quoted(req.orderBy)>> ELSE <<>>
      page == <<Kw(" LIMIT "), Ph(n + 1), Kw(" OFFSET "), Ph(n + 2)>>
  IN [sql |-> from \o where \o order \o page,
      args |-> built.args \o <<IntArg(limitInt), IntArg(offsetInt)>>]

\* the statement and arguments GetTableData builds once its checks passed
SelectStatement(req, limitInt, offsetInt) ==
  LET built == FilterLoop([conds |-> <<>>, args |-> <<>>], req.filters)
      n == Len(built.args)
      from == <<Kw("SELECT * FROM \""), Raw(req.schema), Kw("\".\""), Raw(req.table),
                Kw("\"")>>
      where == IF Len(built.conds) > 0
               THEN <<Kw(" WHERE ")>> \o Join(built.conds, " AND ") ELSE <<>>
      order == IF req.orderBy # <<>> /\ IsValidIdentifier(req.orderBy)
               THEN <<Kw(" ORDER BY "), Quoted(req.orderBy)>> ELSE <<>>
      page == <<Kw(" LIMIT "), Ph(n + 1), Kw(" OFFSET "), Ph(n + 2)>>
  IN [sql |-> from \o where \o order \o page,
      args |-> built.args \o <<IntArg(limitInt), IntArg(offsetInt)>>]

\* a variant of GetTableData that does not look at the sign of limit and offset
GetTableDataAnySign(db, req, eng) ==
  IF ~IsValidIdentifier(req.schema) \/ ~IsValidIdentifier(req.table)
  THEN Fail(Err("invalid schema or table name"))
  ELSE IF ~Atoi(req.limit).ok THEN Fail(Err("invalid limit"))
  ELSE IF ~Atoi(req.offset).ok THEN Fail(Err("invalid offset"))
  ELSE LET st == SelectStatement(req, Atoi(req.limit).n, Atoi(req.offset).n)
       IN ScanAll(DbQuery(db, st.sql, st.args, eng), eng)

GetTableData(db, req, eng) ==
  IF ~IsValidIdentifier(req.schema) \/ ~IsValidIdentifier(req.table)
  THEN Fail(Err("invalid schema or table name"))
  ELSE IF ~Atoi(req.limit).ok \/ Atoi(req.limit).n < 0
  THEN Fail(Err("invalid limit"))
  ELSE IF ~Atoi(req.offset).ok \/ Atoi(req.offset).n < 0
  THEN Fail(Err("invalid offset"))
  ELSE LET st == SelectStatement(req, Atoi(req.limit).n, Atoi(req.offset).n)
       IN ScanAll(DbQuery(db, st.sql, st.args, eng), eng)

\* ------------------------------------------------ PostgresClient: writes

\* A Go map is a function on its key set; ranging over it visits the keys in
\* an order the runtime picks, given here as a sequence without repetition.
Orders(S) ==
  { q \in [1..Cardinality(S) -> S] : \A i, j \in 1..Cardinality(S) : q[i] = q[j] => i = j }

\* a variant of FirstInvalid that validates only the key visited first
FirstInvalidHeadOnly(order) ==
  IF order # <<>> /\ ~IsValidIdentifier(order[1]) THEN 1 ELSE 0

\* the first key, in visiting order, that fails validation (0: none)
FirstInvalid(order) ==
  IF \E i \in 1..Len(order) : ~IsValidIdentifier(order[i])
  THEN CHOOSE i \in 1..Len(order) :
         /\ ~IsValidIdentifier(order[i])
         /\ \A j \in 1..(i - 1) : IsValidIdentifier(order[j])
  ELSE 0

\* a variant of Assignments that writes each value into the text instead of
\* binding it
AssignmentsInline(m, order, first) ==
  [i \in 1..Len(order) |-> <<Kw("\""), Raw(order[i]), Kw("\" = "),
                             Seg("lit", m[order[i]], <<>>, <<>>, 0)>>]

\* the loop body of the SET, WHERE and conditions loops: "col" = $n for the
\* keys of m in visiting order, numbered from first on
Assignments(m, order, first) ==
  [i \in 1..Len(order) |-> <<Kw("\""), Raw(order[i]), Kw("\" = "), Ph(first + i - 1)>>]

\* a variant of MapValues that collects the values from the last key to the
\* first
MapValuesReversed(m, order) ==
  [i \in 1..Len(order) |-> JsonArg(m[order[Len(order) + 1 - i]])]

\* values = append(values, val) in the loop over the keys
MapValues(m, order) == [i \in 1..Len(order) |-> JsonArg(m[order[i]])]

\* a variant of InsertRecord without the check of an empty map
InsertRecordUnchecked(db, schema, table, data, order, eng) ==
  LET columns == [i \in 1..Len(order) |-> <<Raw(order[i])>>]
      placeholders == [i \in 1..Len(order) |-> <<Ph(i)>>]
      query == <<Kw("INSERT INTO \""), Raw(schema), Kw("\".\""), Raw(table),
                 Kw("\" (")>>
               \o Join(columns, ", ") \o <<Kw(") VALUES (")>>
               \o Join(placeholders, ", ") \o <<Kw(")")>>
      r == DbCall(db, query, MapValues(data, order), eng)
  IN IF r.panic THEN r ELSE Ret(r.err, NoVal, r.call)

InsertRecord(db, schema, table, data, order, eng) ==
  IF DOMAIN data = {} THEN Fail(Err("no data to insert"))
  ELSE LET columns == [i \in 1..Len(order) |-> <<Raw(order[i])>>]
           placeholders == [i \in 1..Len(order) |-> <<Ph(i)>>]
           values == MapValues(data, order)
           query == <<Kw("INSERT INTO \""), Raw(schema), Kw("\".\""), Raw(table),
                      Kw("\" (")>>
                    \o Join(columns, ", ") \o <<Kw(") VALUES (")>>
                    \o Join(placeholders, ", ") \o <<Kw(")")>>
       IN LET r == DbCall(db, query, values, eng)
          IN IF r.panic THEN r ELSE Ret(r.err, NoVal, r.call)

UpdateRecord(db, schema, table, data, dorder, where, worder, eng) ==
  IF DOMAIN data = {} THEN Fail(Err("no fields to update"))
  ELSE IF DOMAIN where = {} THEN Fail(Err("missing WHERE clause"))
  ELSE IF FirstInvalid(dorder) # 0
  THEN Fail(ErrArg("invalid column name: ", dorder[FirstInvalid(dorder)]))
  ELSE IF FirstInvalid(worder) # 0
  THEN Fail(ErrArg("invalid column name: ", worder[FirstInvalid(worder)]))
  ELSE LET setClauses == Assignments(data, dorder, 1)
           whereClauses == Assignments(where, worder, Len(dorder) + 1)
           values == MapValues(data, dorder) \o MapValues(where, worder)
           query == <<Kw("UPDATE \""), Raw(schema), Kw("\".\""), Raw(table),
                      Kw("\" SET ")>>
                    \o Join(setClauses, ", ") \o <<Kw(" WHERE ")>>
                    \o Join(whereClauses, " AND ")
       IN Affected(DbCall(db, query, values, eng))

DeleteRecord(db, schemaIn, table, conditions, order, eng) ==
  LET schema == IF schemaIn = <<>> THEN PublicSchema ELSE schemaIn
  IN IF table = <<>> \/ DOMAIN conditions = {}
     THEN Fail(Err("table name and conditions are required"))
     ELSE IF FirstInvalid(order) # 0
     THEN Fail(ErrArg("invalid column name: ", order[FirstInvalid(order)]))
     ELSE LET conds == Assignments(conditions, order, 1)
              args == MapValues(conditions, order)
              query == <<Kw("DELETE FROM \""), Raw(schema), Kw("\".\""), Raw(table),
                         Kw("\" WHERE ")>>
                       \o Join(conds, " AND ")
              r == DbCall(db, query, args, eng)
          IN IF r.panic THEN r
             ELSE IF r.err # NoErr
             THEN Ret(Wrap("failed to execute delete: ", r.err), NoVal, r.call)
             ELSE Affected(r)

\* ------------------------------------------------- PostgresClient: DDL

\* the clause of one column definition
ColumnClause(col) ==
  Join(<<<<Quoted(col.name)>>, <<Expr(col.type)>>>>
       \o (IF col.notNull THEN <<<<Kw("NOT NULL")>>>> ELSE <<>>)
       \o (IF col.default # <<>> THEN <<<<Kw("DEFAULT "), Expr(col.default)>>>> ELSE <<>>),
       " ")

\* a variant of PrimaryKeyColumns that keeps only the first flagged column
PrimaryKeyFirstOnly(columns) ==
  IF \E i \in 1..Len(columns) : columns[i].primaryKey
  THEN LET i == CHOOSE i \in 1..Len(columns) :
                  /\ columns[i].primaryKey
                  /\ \A j \in 1..(i - 1) : ~columns[j].primaryKey
       IN << <<Quoted(columns[i].name)>> >>
  ELSE <<>>

PrimaryKeyColumns(columns) ==
  LET F[i \in 0..Len(columns)] ==
        IF i = 0 THEN <<>>
        ELSE IF columns[i].primaryKey
        THEN Append(F[i - 1], <<Quoted(columns[i].name)>>) ELSE F[i - 1]
  IN F[Len(columns)]

CreateTable(db, tableName, columns, eng) ==
  IF tableName = <<>> \/ columns = <<>> THEN Fail(Err("invalid table definition"))
  ELSE LET pkCols == PrimaryKeyColumns(columns)
           colDefs == [i \in 1..Len(columns) |-> ColumnClause(columns[i])]
                      \o (IF Len(pkCols) > 0
                          THEN <<<<Kw("PRIMARY KEY (")>> \o Join(pkCols, ", ")
                                 \o <<Kw(")")>>>>
                          ELSE <<>>)
           query == <<Kw("CREATE TABLE "), Quoted(tableName), Kw(" (")>>
                    \o Join(colDefs, ", ") \o <<Kw(");")>>
           r == DbCall(db, query, <<>>, eng)
       IN IF r.panic THEN r ELSE Ret(r.err, NoVal, r.call)

\* a variant of AlterStep that takes an absent nullability flag for false
AlterStepPlainBool(acc, op) ==
  IF acc.err # NoErr THEN acc
  ELSE IF op.action = "add_column"
  THEN IF op.columnName = <<>> \/ op.type = <<>>
       THEN [acc EXCEPT !.err = Err("add_column requires column_name and type")]
       ELSE [acc EXCEPT !.statements = Append(@,
               <<Kw("ADD COLUMN "), Quoted(op.columnName), Kw(" "), Expr(op.type)>>)]
  ELSE IF op.action = "drop_column"
  THEN IF op.columnName = <<>>
       THEN [acc EXCEPT !.err = Err("drop_column requires column_name")]
       ELSE [acc EXCEPT !.statements = Append(@,
               <<Kw("DROP COLUMN "), Quoted(op.columnName)>>)]
  ELSE IF op.action = "rename_column"
  THEN IF op.columnName = <<>> \/ op.newName = <<>>
       THEN [acc EXCEPT !.err = Err("rename_column requires column_name and new_name")]
       ELSE [acc EXCEPT !.statements = Append(@,
               <<Kw("RENAME COLUMN "), Quoted(op.columnName), Kw(" TO "),
                 Quoted(op.newName)>>)]
  ELSE IF op.action = "alter_column"
  THEN IF op.columnName = <<>>
       THEN [acc EXCEPT !.err = Err("alter_column requires column_name")]
       ELSE [acc EXCEPT !.statements = @
               \o (IF op.type # <<>>
                   THEN <<<<Kw("ALTER COLUMN "), Quoted(op.columnName), Kw(" TYPE "),
                            Expr(op.type)>>>>
                   ELSE <<>>)
               \o (IF op.notNull = "true"
                   THEN <<<<Kw("ALTER COLUMN "), Quoted(op.columnName),
                            Kw(" SET NOT NULL")>>>>
                   ELSE <<<<Kw("ALTER COLUMN "), Quoted(op.columnName),
                            Kw(" DROP NOT NULL")>>>>)
               \o (IF op.default # <<>>
                   THEN <<<<Kw("ALTER COLUMN "), Quoted(op.columnName),
                            Kw(" SET DEFAULT "), Expr(op.default)>>>>
                   ELSE <<>>)]
  ELSE [acc EXCEPT !.err = ErrArg("unsupported action: ", <<>>)]

\* one pass of the operation loop of AlterTable: acc = [err, statements]
AlterStep(acc, op) ==
  IF acc.err # NoErr THEN acc
  ELSE IF op.action = "add_column"
  THEN IF op.columnName = <<>> \/ op.type = <<>>
       THEN [acc EXCEPT !.err = Err("add_column requires column_name and type")]
       ELSE [acc EXCEPT !.statements = Append(@,
               <<Kw("ADD COLUMN "), Quoted(op.columnName), Kw(" "), Expr(op.type)>>)]
  ELSE IF op.action = "drop_column"
  THEN IF op.columnName = <<>>
       THEN [acc EXCEPT !.err = Err("drop_column requires column_name")]
       ELSE [acc EXCEPT !.statements = Append(@,
               <<Kw("DROP COLUMN "), Quoted(op.columnName)>>)]
  ELSE IF op.action = "rename_column"
  THEN IF op.columnName = <<>> \/ op.newName = <<>>
       THEN [acc EXCEPT !.err = Err("rename_column requires column_name and new_name")]
       ELSE [acc EXCEPT !.statements = Append(@,
               <<Kw("RENAME COLUMN "), Quoted(op.columnName), Kw(" TO "),
                 Quoted(op.newName)>>)]
  ELSE IF op.action = "alter_column"
  THEN IF op.columnName = <<>>
       THEN [acc EXCEPT !.err = Err("alter_column requires column_name")]
       ELSE [acc EXCEPT !.statements = @
               \o (IF op.type # <<>>
                   THEN <<<<Kw("ALTER COLUMN "), Quoted(op.columnName), Kw(" TYPE "),
                            Expr(op.type)>>>>
                   ELSE <<>>)
               \o (IF op.notNull = "true"
                   THEN <<<<Kw("ALTER COLUMN "), Quoted(op.columnName),
                            Kw(" SET NOT NULL")>>>>
                   ELSE IF op.notNull = "false"
                   THEN <<<<Kw("ALTER COLUMN "), Quoted(op.columnName),
                            Kw(" DROP NOT NULL")>>>>
                   ELSE <<>>)
               \o (IF op.default # <<>>
                   THEN <<<<Kw("ALTER COLUMN "), Quoted(op.columnName),
                            Kw(" SET DEFAULT "), Expr(op.default)>>>>
                   ELSE <<>>)]
  ELSE [acc EXCEPT !.err = ErrArg("unsupported action: ", <<>>)]

\* a variant of AlterLoop that takes the operations from the last to the first
RECURSIVE AlterLoopBackwards(_, _)
AlterLoopBackwards(acc, ops) ==
  IF ops = <<>> THEN acc
  ELSE AlterLoopBackwards(AlterStep(acc, ops[Len(ops)]), SubSeq(ops, 1, Len(ops) - 1))

RECURSIVE AlterLoop(_, _)
AlterLoop(acc, ops) ==
  IF ops = <<>> THEN acc ELSE AlterLoop(AlterStep(acc, Head(ops)), Tail(ops))

\* a variant of AlterTable that sends the sub-clauses built before a failing
\* operation and then returns the failure
AlterTablePartial(db, tableName, ops, eng) ==
  IF tableName = <<>> \/ ops = <<>> THEN Fail(Err("invalid alter table request"))
  ELSE LET built == AlterLoop([err |-> NoErr, statements |-> <<>>], ops)
           query == <<Kw("ALTER TABLE "), Quoted(tableName), Kw(" ")>>
                    \o Join(built.statements, ", ") \o <<Kw(";")>>
           r == DbCall(db, query, <<>>, eng)
       IN IF built.err # NoErr /\ built.statements = <<>> THEN Fail(built.err)
          ELSE IF r.panic THEN r
          ELSE Ret(IF built.err # NoErr THEN built.err ELSE r.err, NoVal, r.call)

AlterTable(db, tableName, ops, eng) ==
  IF tableName = <<>> \/ ops = <<>> THEN Fail(Err("invalid alter table request"))
  ELSE LET built == AlterLoop([err |-> NoErr, statements |-> <<>>], ops)
       IN IF built.err # NoErr THEN Fail(built.err)
          ELSE LET query == <<Kw("ALTER TABLE "), Quoted(tableName), Kw(" ")>>
                            \o Join(built.statements, ", ") \o <<Kw(";")>>
                   r == DbCall(db, query, <<>>, eng)
               IN IF r.panic THEN r ELSE Ret(r.err, NoVal, r.call)

DropTable(db, tableName, cascade, eng) ==
  IF tableName = <<>> THEN Fail(Err("table name is required"))
  ELSE LET query == <<Kw("DROP TABLE "), Quoted(tableName)>>
                    \o (IF cascade THEN <<Kw(" CASCADE")>> ELSE <<>>) \o <<Kw(";")>>
           r == DbCall(db, query, <<>>, eng)
       IN IF r.panic THEN r ELSE Ret(r.err, NoVal, r.call)

\* ------------------------------------- PostgresClient: Connect, Disconnect

OpenMsg == "pq: invalid connection string"
PingMsg == "pq: connection refused"

\* Connect on a client whose handle is db. sql.Open fails on a DSN the driver
\* cannot parse and then nothing is assigned; otherwise the new handle is
\* assigned to p.db before db.Ping() decides the result.
Connect(db, dsn) ==
  IF dsn = "malformed"
  THEN [db |-> db, handles |-> handles, err |-> EngineErr(OpenMsg)]
  ELSE [db |-> Len(handles) + 1,
        handles |-> Append(handles, [open |-> TRUE, verified |-> dsn = "good"]),
        err |-> IF dsn = "good" THEN NoErr ELSE EngineErr(PingMsg)]

\* a variant of Disconnect in which closing a closed handle is an error
DisconnectStrict(db) ==
  IF db # NilDB
  THEN [db |-> db, handles |-> [handles EXCEPT ![db].open = FALSE],
        err |-> IF handles[db].open THEN NoErr ELSE EngineErr(ClosedMsg)]
  ELSE [db |-> db, handles |-> handles, err |-> NoErr]

\* Disconnect: Close on the handle when there is one (database/sql's Close on a
\* closed DB returns nil); p.db itself is left as it is
Disconnect(db) ==
  IF db # NilDB
  THEN [db |-> db, handles |-> [handles EXCEPT ![db].open = FALSE], err |-> NoErr]
  ELSE [db |-> db, handles |-> handles, err |-> NoErr]

\* ------------------------------------------------------------- the record

\* connecting: the connect request being served, between the statement of
\* ConnectHandler that fills the slot and its answer: c the client it made,
\* dsn its DSN, pc what it does next ("open": sql.Open, "ping": db.Ping).
\* NoConnect when no connect request is under way.
NoConnect == [c |-> 0, dsn |-> "", pc |-> ""]


\* last: the most recent call. h, req, status, msg: the handler that ran, its
\* request, its HTTP status and the fixed text of its answer (h = "" for a
\* direct call on the gateway); g, c, in, out: the gateway method it invoked
\* (g = "" for none), the client it ran on, its arguments and what it did;
\* pre: that client's handle as the call found it.
Pre(c) ==
  IF c = 0 \/ clients[c].db = NilDB
  THEN [db |-> NilDB, open |-> FALSE, verified |-> FALSE]
  ELSE [db |-> clients[c].db, open |-> handles[clients[c].db].open,
        verified |-> handles[clients[c].db].verified]
GCall(g, c, in, out) == [g |-> g, c |-> c, in |-> in, out |-> out, pre |-> Pre(c)]
NoCall == GCall("", 0, <<>>, Fail(NoErr))
Resp(h, req, status, msg, call) ==
  [h |-> h, req |-> req, status |-> status, msg |-> msg,
   g |-> call.g, c |-> call.c, in |-> call.in, out |-> call.out, pre |-> call.pre]
Idle == Resp("", <<>>, 0, "", NoCall)

\* no call is in progress
Ready == last = Idle

\* the caller has taken the result of the call; the next call can begin
Deliver ==
  /\ last # Idle
  /\ last' = Idle
  /\ UNCHANGED <<clients, handles, activeDB, connecting>>

\* ------------------------------------------- direct calls on a gateway

\* a call of method g on client c that leaves the connection as it is
Direct(g, c, in, out) ==
  /\ last = Idle
  /\ c \in 1..Len(clients)
  /\ last' = Resp("", <<>>, 0, "", GCall(g, c, in, out))
  /\ UNCHANGED <<clients, handles, activeDB, connecting>>

GwConnect(c, dsn) ==
  /\ last = Idle
  /\ c \in 1..Len(clients)
  /\ dsn # "malformed" => Len(handles) < MaxHandles
  /\ LET r == Connect(clients[c].db, dsn)
     IN /\ clients' = [clients EXCEPT ![c].db = r.db]
        /\ handles' = r.handles
        /\ last' = Resp("", <<>>, 0, "",
                        GCall("Connect", c, [dsn |-> dsn], Fail(r.err)))
  /\ UNCHANGED <<activeDB, connecting>>

GwDisconnect(c) ==
  /\ last = Idle
  /\ c \in 1..Len(clients)
  /\ LET r == Disconnect(clients[c].db)
     IN /\ clients' = [clients EXCEPT ![c].db = r.db]
        /\ handles' = r.handles
        /\ last' = Resp("", <<>>, 0, "", GCall("Disconnect", c, <<>>, Fail(r.err)))
  /\ UNCHANGED <<activeDB, connecting>>

GwListSchemas(c, eng) ==
  Direct("ListSchemas", c, <<>>, ListSchemas(clients[c].db, eng))

GwListTables(c, schema, eng) ==
  Direct("ListTables", c, [schema |-> schema], ListTables(clients[c].db, schema, eng))

GwListColumns(c, schema, table, eng) ==
  Direct("ListColumns", c, [schema |-> schema, table |-> table],
         ListColumns(clients[c].db, schema, table, eng))

GwExecuteQuery(c, sql, eng) ==
  Direct("ExecuteQuery", c, [sql |-> sql], ExecuteQuery(clients[c].db, sql, eng))

GwGetTableData(c, req, eng) ==
  Direct("GetTableData", c, req, GetTableData(clients[c].db, req, eng))

GwInsertRecord(c, schema, table, data, order, eng) ==
  Direct("InsertRecord", c,
         [schema |-> schema, table |-> table, data |-> data, order |-> order],
         InsertRecord(clients[c].db, schema, table, data, order, eng))

GwUpdateRecord(c, schema, table, data, dorder, where, worder, eng) ==
  Direct("UpdateRecord", c,
         [schema |-> schema, table |-> table, data |-> data, dorder |-> dorder,
          where |-> where, worder |-> worder],
         UpdateRecord(clients[c].db, schema, table, data, dorder, where, worder, eng))

GwDeleteRecord(c, schema, table, conditions, order, eng) ==
  Direct("DeleteRecord", c,
         [schema |-> schema, table |-> table, conditions |-> conditions,
          order |-> order],
         DeleteRecord(clients[c].db, schema, table, conditions, order, eng))

GwCreateTable(c, tableName, columns, eng) ==
  Direct("CreateTable", c, [tableName |-> tableName, columns |-> columns],
         CreateTable(clients[c].db, tableName, columns, eng))

GwAlterTable(c, tableName, ops, eng) ==
  Direct("AlterTable", c, [tableName |-> tableName, ops |-> ops],
         AlterTable(clients[c].db, tableName, ops, eng))

GwDropTable(c, tableName, cascade, eng) ==
  Direct("DropTable", c, [tableName |-> tableName, cascade |-> cascade],
         DropTable(clients[c].db, tableName, cascade, eng))

\* ------------------------------------------------------------- handlers

\* A query parameter is <<>> when absent and <<v>> when given.
DefaultQuery(param, def) == IF param = <<>> THEN def ELSE param[1]
Query(param) == IF param = <<>> THEN <<>> ELSE param[1]

\* the handler answers without having called the gateway
Reject(h, req, status, msg) ==
  /\ last = Idle
  /\ last' = Resp(h, req, status, msg, NoCall)
  /\ UNCHANGED <<clients, handles, activeDB, connecting>>

\* the handler called method g on the active client and answers from what came
\* back: 500 with the error's text, or with nothing when gin's Recovery caught
\* a panic, else okStatus
Answer(h, req, okStatus, okMsg, errPrefix, g, in, out) ==
  /\ last = Idle
  /\ last' = Resp(h, req,
                  IF out.panic \/ out.err # NoErr THEN 500 ELSE okStatus,
                  IF out.panic THEN "" ELSE IF out.err # NoErr THEN errPrefix ELSE okMsg,
                  GCall(g, activeDB, in, out))
  /\ UNCHANGED <<clients, handles, activeDB, connecting>>

ActiveHandle == clients[activeDB].db

\* a variant of ConnectHandler that fills the slot only while it is empty
ConnectHandlerKeepFirst(req) ==
  IF req.malformed THEN Reject("ConnectHandler", req, 400, "Invalid request")
  ELSE IF req.driver # "postgres"
  THEN Reject("ConnectHandler", req, 400, "Unsupported driver")
  ELSE /\ last = Idle
       /\ Len(clients) < MaxClients
       /\ req.dsn # "malformed" => Len(handles) < MaxHandles
       /\ LET c == Len(clients) + 1
              r == Connect(NilDB, req.dsn)
          IN /\ activeDB' = IF activeDB = 0 THEN c ELSE activeDB
             /\ clients' = Append(clients, [db |-> r.db])
             /\ handles' = r.handles
             /\ last' = [Resp("ConnectHandler", req,
                              IF r.err # NoErr THEN 500 ELSE 200,
                              IF r.err # NoErr THEN "Failed to connect: "
                              ELSE "Connected successfully",
                              GCall("Connect", 0, [dsn |-> req.dsn], Fail(r.err)))
                         EXCEPT !.c = c]
       /\ UNCHANGED connecting

ConnectHandler(req) ==
  IF req.malformed THEN Reject("ConnectHandler", req, 400, "Invalid request")
  ELSE IF req.driver # "postgres"
  THEN Reject("ConnectHandler", req, 400, "Unsupported driver")
  ELSE /\ last = Idle
       /\ Len(clients) < MaxClients
       /\ req.dsn # "malformed" => Len(handles) < MaxHandles
       /\ LET c == Len(clients) + 1
              r == Connect(NilDB, req.dsn)
          IN /\ activeDB' = c
             /\ clients' = Append(clients, [db |-> r.db])
             /\ handles' = r.handles
             /\ last' = [Resp("ConnectHandler", req,
                              IF r.err # NoErr THEN 500 ELSE 200,
                              IF r.err # NoErr THEN "Failed to connect: "
                              ELSE "Connected successfully",
                              GCall("Connect", 0, [dsn |-> req.dsn], Fail(r.err)))
                         EXCEPT !.c = c]
       /\ UNCHANGED connecting

ListTablesHandler(req, eng) ==
  IF activeDB = 0
  THEN Reject("ListTablesHandler", req, 400, "No active DB connection")
  ELSE LET schema == DefaultQuery(req.schema, PublicSchema)
       IN Answer("ListTablesHandler", req, 200, "", "", "ListTables",
                 [schema |-> schema], ListTables(ActiveHandle, schema, eng))

ListColumnsHandler(req, eng) ==
  IF activeDB = 0
  THEN Reject("ListColumnsHandler", req, 400, "Not connected to any database")
  ELSE IF Query(req.table) = <<>>
  THEN Reject("ListColumnsHandler", req, 400, "Missing 'table' query parameter")
  ELSE LET schema == DefaultQuery(req.schema, PublicSchema)
       IN Answer("ListColumnsHandler", req, 200, "", "Failed to fetch columns: ",
                 "ListColumns", [schema |-> schema, table |-> Query(req.table)],
                 ListColumns(ActiveHandle, schema, Query(req.table), eng))

\* binding of CreateTableRequest: table_name required, columns required
CreateTableBinds(req) == ~req.malformed /\ req.tableName # <<>> /\ req.hasColumns

CreateTableHandler(req, eng) ==
  IF activeDB = 0
  THEN Reject("CreateTableHandler", req, 400, "No active DB connection")
  ELSE IF ~CreateTableBinds(req)
  THEN Reject("CreateTableHandler", req, 400, "binding error")
  ELSE Answer("CreateTableHandler", req, 201, "table created successfully", "",
              "CreateTable", [tableName |-> req.tableName, columns |-> req.columns],
              CreateTable(ActiveHandle, req.tableName, req.columns, eng))

\* binding of AlterTableRequest: operations required, min=1, each action required
AlterTableBinds(req) ==
  /\ ~req.malformed
  /\ Len(req.operations) >= 1
  /\ \A i \in 1..Len(req.operations) : req.operations[i].action # ""

AlterTableHandler(req, eng) ==
  IF ~AlterTableBinds(req)
  THEN Reject("AlterTableHandler", req, 400, "binding error")
  ELSE IF activeDB = 0
  THEN Reject("AlterTableHandler", req, 400, "No active DB connection")
  ELSE Answer("AlterTableHandler", req, 200, "table altered successfully", "",
              "AlterTable", [tableName |-> req.tableName, ops |-> req.operations],
              AlterTable(ActiveHandle, req.tableName, req.operations, eng))

\* a variant of ParseBool that takes every text but the false ones for true
ParseBoolLenient(s) ==
  IF s \in {"0", "f", "F", "FALSE", "false", "False"} THEN [ok |-> TRUE, b |-> FALSE]
  ELSE [ok |-> TRUE, b |-> TRUE]

\* strconv.ParseBool: [ok, value]
ParseBool(s) ==
  IF s \in {"1", "t", "T", "TRUE", "true", "True"} THEN [ok |-> TRUE, b |-> TRUE]
  ELSE IF s \in {"0", "f", "F", "FALSE", "false", "False"} THEN [ok |-> TRUE, b |-> FALSE]
  ELSE [ok |-> FALSE, b |-> FALSE]

DropTableHandler(req, eng) ==
  IF activeDB = 0
  THEN Reject("DropTableHandler", req, 400, "No active DB connection")
  ELSE LET cascade == IF req.cascade # <<>> /\ req.cascade[1] # ""
                         /\ ParseBool(req.cascade[1]).ok
                      THEN ParseBool(req.cascade[1]).b ELSE FALSE
       IN Answer("DropTableHandler", req, 200, "table dropped successfully", "",
                 "DropTable", [tableName |-> req.tableName, cascade |-> cascade],
                 DropTable(ActiveHandle, req.tableName, cascade, eng))

\* a variant of QueryHandler without the check of the slot: the call through
\* the nil interface panics and gin's Recovery answers 500
QueryHandlerUnguarded(req, eng) ==
  IF req.malformed THEN Reject("QueryHandler", req, 400, "Invalid request")
  ELSE IF activeDB = 0 THEN Reject("QueryHandler", req, 500, "")
  ELSE Answer("QueryHandler", req, 200, "", "", "ExecuteQuery", [sql |-> req.sql],
              ExecuteQuery(ActiveHandle, req.sql, eng))

QueryHandler(req, eng) ==
  IF req.malformed THEN Reject("QueryHandler", req, 400, "Invalid request")
  ELSE IF activeDB = 0
  THEN Reject("QueryHandler", req, 400, "No active database connection")
  ELSE Answer("QueryHandler", req, 200, "", "", "ExecuteQuery", [sql |-> req.sql],
              ExecuteQuery(ActiveHandle, req.sql, eng))

\* the TableDataRequest the handler fills in: schema, table, limit and offset
TableDataRequestOf(req) ==
  [schema |-> DefaultQuery(req.schema, PublicSchema),
   table |-> Query(req.table),
   limit |-> DefaultQuery(req.limit, <<"1","0","0">>),
   offset |-> DefaultQuery(req.offset, <<"0">>),
   orderBy |-> <<>>,
   filters |-> <<>>]

TableDataHandler(req, eng) ==
  IF activeDB = 0
  THEN Reject("TableDataHandler", req, 400, "Not connected to any database")
  ELSE IF Query(req.table) = <<>>
  THEN Reject("TableDataHandler", req, 400, "Missing table name")
  ELSE Answer("TableDataHandler", req, 200, "", "", "GetTableData",
              TableDataRequestOf(req),
              GetTableData(ActiveHandle, TableDataRequestOf(req), eng))

InsertRecordHandler(req, order, eng) ==
  IF req.malformed THEN Reject("InsertRecordHandler", req, 400, "Invalid JSON")
  ELSE IF activeDB = 0
  THEN Reject("InsertRecordHandler", req, 400, "No active DB connection")
  ELSE Answer("InsertRecordHandler", req, 200, "Record inserted successfully", "",
              "InsertRecord",
              [schema |-> req.schema, table |-> req.table, data |-> req.data,
               order |-> order],
              InsertRecord(ActiveHandle, req.schema, req.table, req.data, order, eng))

UpdateRecordHandler(req, dorder, worder, eng) ==
  IF req.malformed THEN Reject("UpdateRecordHandler", req, 400, "Invalid JSON")
  ELSE IF activeDB = 0
  THEN Reject("UpdateRecordHandler", req, 400, "No active DB connection")
  ELSE Answer("UpdateRecordHandler", req, 200, "Record(s) updated successfully", "",
              "UpdateRecord",
              [schema |-> req.schema, table |-> req.table, data |-> req.data,
               dorder |-> dorder, where |-> req.where, worder |-> worder],
              UpdateRecord(ActiveHandle, req.schema, req.table, req.data, dorder,
                           req.where, worder, eng))

DeleteRecordHandler(req, order, eng) ==
  IF req.malformed
  THEN Reject("DeleteRecordHandler", req, 400, "Invalid request payload")
  ELSE IF req.table = <<>> \/ DOMAIN req.conditions = {}
  THEN Reject("DeleteRecordHandler", req, 400, "Missing table or conditions")
  ELSE IF activeDB = 0
  THEN Reject("DeleteRecordHandler", req, 503, "No active database connection")
  ELSE Answer("DeleteRecordHandler", req, 200, "Record deleted successfully", "",
              "DeleteRecord",
              [schema |-> req.schema, table |-> req.table,
               conditions |-> req.conditions, order |-> order],
              DeleteRecord(ActiveHandle, req.schema, req.table, req.conditions,
                           order, eng))

\* --------------------------------------------------------------- inputs

SeqsUpTo(S, n) == UNION { [1..k -> S] : k \in 0..n }

\* identifier validation: every string over these characters
Alphabet == {"a", "Z", "_", "7", "\"", "\n"}
Strings == SeqsUpTo(Alphabet, MaxLen)

\* names: valid ones, and ones that fail validation (a quote, a semicolon, a
\* leading digit, the empty name)
Schemas == { <<"s","1">>, <<"s","\"">> }
Tables == { <<"t">>, <<"t",";">> }
KeyNames == { <<"i","d">>, <<"_","a">>, <<"1","a">> }
Values == {"v1", "v2"}
Maps == UNION { [K -> Values] : K \in { S \in SUBSET KeyNames : Cardinality(S) <= MaxKeys } }

Limits == { <<"1","0">>, <<"0">>, <<"-","1">>, <<>> }
Offsets == { <<"0">>, <<"5">>, <<"x">>, <<"-","1">> }
OrderBys == { <<>>, <<"i","d">>, <<"1","a">> }
\* id:=:7   n:like:j   id:!=:5   a:>=:3:0   x"y:<:1   bad
Filters ==
  { <<"i","d",":","=",":","7">>,
    <<"n",":","l","i","k","e",":","j">>,
    <<"i","d",":","!","=",":","5">>,
    <<"a",":",">","=",":","3",":","0">>,
    <<"x","\"","y",":","<",":","1">>,
    <<"b","a","d">> }
TableDataRequests ==
  [schema : Schemas, table : Tables, limit : Limits, offset : Offsets,
   orderBy : OrderBys, filters : SeqsUpTo(Filters, MaxItems)]

\* select 1 /  SeLeCt 1 / with x (select 1) / insert
Sqls ==
  { <<"s","e","l","e","c","t"," ","1">>,
    <<" ","\n","S","e","L","e","C","t"," ","1">>,
    <<"w","i","t","h"," ","x"," ","(","s","e","l","e","c","t"," ","1",")">>,
    <<"i","n","s","e","r","t">>,
    <<"s","e","l","e","c">>,
    <<>> }

IntType == <<"i","n","t">>
ColumnDefs ==
  { [name |-> <<"i","d">>, type |-> IntType, primaryKey |-> TRUE, notNull |-> TRUE,
     default |-> <<>>],
    [name |-> <<"_","a">>, type |-> IntType, primaryKey |-> FALSE, notNull |-> FALSE,
     default |-> <<"0">>],
    [name |-> <<"1","a">>, type |-> IntType, primaryKey |-> TRUE, notNull |-> FALSE,
     default |-> <<>>],
    [name |-> <<"b">>, type |-> IntType, primaryKey |-> FALSE, notNull |-> TRUE,
     default |-> <<>>] }

AlterOp(action, columnName, newName, type, notNull, default) ==
  [action |-> action, columnName |-> columnName, newName |-> newName, type |-> type,
   notNull |-> notNull, default |-> default]
AlterOps ==
  { AlterOp("add_column", <<"e">>, <<>>, IntType, "nil", <<>>),
    AlterOp("add_column", <<"e">>, <<>>, <<>>, "nil", <<>>),
    AlterOp("drop_column", <<"o","\"">>, <<>>, <<>>, "nil", <<>>),
    AlterOp("rename_column", <<"a">>, <<"b">>, <<>>, "nil", <<>>),
    AlterOp("alter_column", <<"a">>, <<>>, IntType, "true", <<"0">>),
    AlterOp("alter_column", <<"a">>, <<>>, <<>>, "false", <<>>),
    AlterOp("alter_column", <<"a">>, <<>>, <<>>, "nil", <<>>),
    AlterOp("alter_column", <<"a">>, <<>>, IntType, "nil", <<>>),
    AlterOp("alter_column", <<"a">>, <<>>, <<>>, "nil", <<"0">>),
    AlterOp("truncate", <<"a">>, <<>>, <<>>, "nil", <<>>) }

ExecOutcomes == {"ok", "fail"}
QueryOutcomes == {"ok", "fail", "scanfail"}
ResultOutcomes == QueryOutcomes \cup {"norows", "onecol"}
Dsns == {"good", "unreachable", "malformed"}

\* --------------------------------------------- the gateway, statement building

\* One PostgresClient, connected once, then called with every combination of
\* arguments above.
InitGateway ==
  /\ clients = <<[db |-> NilDB]>>
  /\ handles = <<>>
  /\ activeDB = 0
  /\ connecting = NoConnect
  /\ last = Idle

BuildConnect ==
  /\ clients[1].db = NilDB
  /\ GwConnect(1, "good")

NextBuild ==
  \/ BuildConnect
  \/ Deliver
  \/ Ready /\ \E s \in Schemas \cup {<<>>}, e \in QueryOutcomes : GwListTables(1, s, e)
  \/ Ready /\ \E s \in Schemas, tb \in Tables, e \in QueryOutcomes : GwListColumns(1, s, tb, e)
  \/ Ready /\ \E q \in Sqls, e \in QueryOutcomes : GwExecuteQuery(1, q, e)
  \/ Ready /\ \E req \in TableDataRequests, e \in QueryOutcomes : GwGetTableData(1, req, e)
  \/ Ready /\ \E s \in Schemas, tb \in Tables, d \in Maps, e \in ExecOutcomes :
       \E o \in Orders(DOMAIN d) : GwInsertRecord(1, s, tb, d, o, e)
  \/ Ready /\ \E s \in Schemas, tb \in Tables, d \in Maps, w \in Maps, e \in ExecOutcomes :
       \E o \in Orders(DOMAIN d), wo \in Orders(DOMAIN w) :
         GwUpdateRecord(1, s, tb, d, o, w, wo, e)
  \/ Ready /\ \E s \in Schemas \cup {<<>>}, tb \in Tables \cup {<<>>}, d \in Maps,
        e \in ExecOutcomes :
       \E o \in Orders(DOMAIN d) : GwDeleteRecord(1, s, tb, d, o, e)
  \/ Ready /\ \E tb \in Tables \cup {<<>>}, cols \in SeqsUpTo(ColumnDefs, MaxItems),
        e \in ExecOutcomes : GwCreateTable(1, tb, cols, e)
  \/ Ready /\ \E tb \in Tables \cup {<<>>}, ops \in SeqsUpTo(AlterOps, MaxItems),
        e \in ExecOutcomes : GwAlterTable(1, tb, ops, e)
  \/ Ready /\ \E tb \in Tables \cup {<<>>}, cascade \in BOOLEAN, e \in ExecOutcomes :
       GwDropTable(1, tb, cascade, e)

SpecBuild == InitGateway /\ [][NextBuild]_vars

\* ------------------------------------------------ identifier validation

InitIdent ==
  /\ clients = <<>>
  /\ handles = <<>>
  /\ activeDB = 0
  /\ connecting = NoConnect
  /\ last = Idle

CheckIdentifier(s) ==
  /\ last = Idle
  /\ last' = Resp("", <<>>, 0, "", GCall("IsValidIdentifier", 0, s, IsValidIdentifier(s)))
  /\ UNCHANGED <<clients, handles, activeDB, connecting>>

NextIdent ==
  \/ Ready /\ \E s \in Strings : CheckIdentifier(s)
  \/ Deliver

SpecIdent == InitIdent /\ [][NextIdent]_vars

\* ------------------------------------------- the gateway, connection life

\* One PostgresClient driven through Connect, Disconnect and its other
\* methods in any order.
S1 == <<"s","1">>
T1 == <<"t">>
Row1 == (<<"i","d">> :> "v1")
Cols1 == <<[name |-> <<"i","d">>, type |-> IntType, primaryKey |-> TRUE,
            notNull |-> TRUE, default |-> <<>>]>>
Ops1 == <<AlterOp("add_column", <<"e">>, <<>>, IntType, "nil", <<>>)>>
Select1 == <<"s","e","l","e","c","t"," ","1">>
TableData1 ==
  [schema |-> S1, table |-> T1, limit |-> <<"1","0">>, offset |-> <<"0">>,
   orderBy |-> <<>>, filters |-> <<>>]

NextGateway ==
  \/ Deliver
  \/ Ready /\ \E dsn \in Dsns : GwConnect(1, dsn)
  \/ Ready /\ GwDisconnect(1)
  \/ Ready /\ \E e \in QueryOutcomes : GwListSchemas(1, e)
  \/ Ready /\ \E e \in QueryOutcomes : GwListTables(1, S1, e)
  \/ Ready /\ \E e \in QueryOutcomes : GwListColumns(1, S1, T1, e)
  \/ Ready /\ \E q \in {Select1, <<"i","n","s","e","r","t">>}, e \in ResultOutcomes :
       GwExecuteQuery(1, q, e)
  \/ Ready /\ \E e \in ResultOutcomes : GwGetTableData(1, TableData1, e)
  \/ Ready /\ \E d \in {Row1, <<>>}, e \in ExecOutcomes :
       \E o \in Orders(DOMAIN d) : GwInsertRecord(1, S1, T1, d, o, e)
  \/ Ready /\ \E d \in {Row1, <<>>}, e \in ExecOutcomes :
       \E o \in Orders(DOMAIN d) : GwUpdateRecord(1, S1, T1, d, o, Row1, <<<<"i","d">>>>, e)
  \/ Ready /\ \E d \in {Row1, <<>>}, e \in ExecOutcomes :
       \E o \in Orders(DOMAIN d) : GwDeleteRecord(1, S1, T1, d, o, e)
  \/ Ready /\ \E cols \in {Cols1, <<>>}, e \in ExecOutcomes : GwCreateTable(1, T1, cols, e)
  \/ Ready /\ \E ops \in {Ops1, <<>>}, e \in ExecOutcomes : GwAlterTable(1, T1, ops, e)
  \/ Ready /\ \E cascade \in BOOLEAN, e \in ExecOutcomes : GwDropTable(1, T1, cascade, e)

SpecGateway == InitGateway /\ [][NextGateway]_vars

\* ------------------------------------------------------------ the server

\* The process of cmd/main.go: no client yet, the slot empty, requests served
\* one after the other.
Init ==
  /\ clients = <<>>
  /\ handles = <<>>
  /\ activeDB = 0
  /\ connecting = NoConnect
  /\ last = Idle

ConnectRequests ==
  { [malformed |-> TRUE, driver |-> "", dsn |-> "good"],
    [malformed |-> FALSE, driver |-> "mysql", dsn |-> "good"] }
  \cup [malformed : {FALSE}, driver : {"postgres"}, dsn : Dsns]
ListTablesRequests == { [schema |-> <<>>], [schema |-> <<S1>>] }
ListColumnsRequests ==
  { [schema |-> <<>>, table |-> <<T1>>], [schema |-> <<S1>>, table |-> <<>>] }
CreateTableRequests ==
  { [malformed |-> TRUE, tableName |-> <<>>, hasColumns |-> FALSE, columns |-> <<>>],
    [malformed |-> FALSE, tableName |-> T1, hasColumns |-> TRUE, columns |-> Cols1],
    [malformed |-> FALSE, tableName |-> T1, hasColumns |-> TRUE, columns |-> <<>>] }
AlterTableRequests ==
  { [malformed |-> TRUE, tableName |-> T1, operations |-> <<>>],
    [malformed |-> FALSE, tableName |-> T1, operations |-> <<>>],
    [malformed |-> FALSE, tableName |-> T1, operations |-> Ops1] }
DropTableRequests ==
  { [tableName |-> T1, cascade |-> <<>>], [tableName |-> T1, cascade |-> <<"true">>],
    [tableName |-> T1, cascade |-> <<"yes">>], [tableName |-> T1, cascade |-> <<"1">>],
    [tableName |-> T1, cascade |-> <<"false">>], [tableName |-> T1, cascade |-> <<"">>] }
QueryRequests ==
  { [malformed |-> TRUE, sql |-> <<>>], [malformed |-> FALSE, sql |-> Select1],
    [malformed |-> FALSE, sql |-> <<"i","n","s","e","r","t">>] }
\* the query string of a table-data request; order_by and filter are
\* parameters a caller can give (model.TableDataRequest has fields for them)
TableDataParams ==
  { [schema |-> <<>>, table |-> <<T1>>, limit |-> <<>>, offset |-> <<>>,
     orderBy |-> <<>>, filters |-> <<>>],
    [schema |-> <<S1>>, table |-> <<>>, limit |-> <<>>, offset |-> <<>>,
     orderBy |-> <<>>, filters |-> <<>>],
    [schema |-> <<S1>>, table |-> <<T1>>, limit |-> <<<<"x">>>>, offset |-> <<<<"0">>>>,
     orderBy |-> <<>>, filters |-> <<>>],
    [schema |-> <<S1>>, table |-> <<T1>>, limit |-> <<<<"5">>>>, offset |-> <<<<"0">>>>,
     orderBy |-> <<<<"i","d">>>>, filters |-> <<<<"i","d",":","=",":","7">>>>] }
InsertRequests ==
  { [malformed |-> TRUE, schema |-> <<>>, table |-> <<>>, data |-> <<>>],
    [malformed |-> FALSE, schema |-> S1, table |-> T1, data |-> Row1],
    [malformed |-> FALSE, schema |-> S1, table |-> T1, data |-> <<>>] }
UpdateRequests ==
  { [malformed |-> TRUE, schema |-> <<>>, table |-> <<>>, data |-> <<>>, where |-> <<>>],
    [malformed |-> FALSE, schema |-> S1, table |-> T1, data |-> Row1, where |-> Row1],
    [malformed |-> FALSE, schema |-> S1, table |-> T1, data |-> Row1, where |-> <<>>] }
DeleteRequests ==
  { [malformed |-> TRUE, schema |-> <<>>, table |-> <<>>, conditions |-> <<>>],
    [malformed |-> FALSE, schema |-> <<>>, table |-> T1, conditions |-> Row1],
    [malformed |-> FALSE, schema |-> S1, table |-> <<>>, conditions |-> Row1],
    [malformed |-> FALSE, schema |-> S1, table |-> T1, conditions |-> <<>>] }

Next ==
  \/ Deliver
  \/ Ready /\ \E req \in ConnectRequests : ConnectHandler(req)
  \/ Ready /\ \E req \in ListTablesRequests, e \in QueryOutcomes :
       ListTablesHandler(req, e)
  \/ Ready /\ \E req \in ListColumnsRequests, e \in QueryOutcomes :
       ListColumnsHandler(req, e)
  \/ Ready /\ \E req \in CreateTableRequests, e \in ExecOutcomes :
       CreateTableHandler(req, e)
  \/ Ready /\ \E req \in AlterTableRequests, e \in ExecOutcomes :
       AlterTableHandler(req, e)
  \/ Ready /\ \E req \in DropTableRequests, e \in ExecOutcomes : DropTableHandler(req, e)
  \/ Ready /\ \E req \in QueryRequests, e \in QueryOutcomes : QueryHandler(req, e)
  \/ Ready /\ \E req \in TableDataParams, e \in QueryOutcomes : TableDataHandler(req, e)
  \/ Ready /\ \E req \in InsertRequests, e \in ExecOutcomes :
       \E o \in Orders(DOMAIN req.data) : InsertRecordHandler(req, o, e)
  \/ Ready /\ \E req \in UpdateRequests, e \in ExecOutcomes :
       \E o \in Orders(DOMAIN req.data), wo \in Orders(DOMAIN req.where) :
         UpdateRecordHandler(req, o, wo, e)
  \/ Ready /\ \E req \in DeleteRequests, e \in ExecOutcomes :
       \E o \in Orders(DOMAIN req.conditions) : DeleteRecordHandler(req, o, e)

Spec == Init /\ [][Next]_vars

\* ------------------------------------- the server, requests overlapping

\* gin serves every request on a goroutine of its own and activeDB is a
\* package variable that no lock guards, so the statements of ConnectHandler
\* interleave with the other handlers. A handler that reads the slot while
\* ConnectHandler writes it sees the old or the new client; both happen here
\* as the two orders of the steps. The other handlers are one step each.

\* ConnectHandler up to activeDB = newPostgresClient(): the body is decoded,
\* the driver chosen, and the slot holds a client whose db is nil
ConnectBegin(req) ==
  IF req.malformed THEN Reject("ConnectHandler", req, 400, "Invalid request")
  ELSE IF req.driver # "postgres"
  THEN Reject("ConnectHandler", req, 400, "Unsupported driver")
  ELSE /\ connecting = NoConnect
       /\ Len(clients) < MaxClients
       /\ req.dsn # "malformed" => Len(handles) < MaxHandles
       /\ clients' = Append(clients, [db |-> NilDB])
       /\ activeDB' = Len(clients) + 1
       /\ connecting' = [c |-> Len(clients) + 1, dsn |-> req.dsn, pc |-> "open"]
       /\ UNCHANGED <<handles, last>>

\* the answer of the connect request under way
ConnectAnswer(err) ==
  [Resp("ConnectHandler",
        [malformed |-> FALSE, driver |-> "postgres", dsn |-> connecting.dsn],
        IF err # NoErr THEN 500 ELSE 200,
        IF err # NoErr THEN "Failed to connect: " ELSE "Connected successfully",
        GCall("Connect", 0, [dsn |-> connecting.dsn], Fail(err)))
   EXCEPT !.c = connecting.c]

\* Connect, first half: sql.Open, and p.db = db when the DSN was parsed; a DSN
\* that was not ends the request
ConnectOpen ==
  /\ last = Idle
  /\ connecting.pc = "open"
  /\ IF connecting.dsn = "malformed"
     THEN /\ last' = ConnectAnswer(EngineErr(OpenMsg))
          /\ connecting' = NoConnect
          /\ UNCHANGED <<clients, handles, activeDB>>
     ELSE /\ handles' = Append(handles, [open |-> TRUE, verified |-> FALSE])
          /\ clients' = [clients EXCEPT ![connecting.c].db = Len(handles) + 1]
          /\ connecting' = [connecting EXCEPT !.pc = "ping"]
          /\ UNCHANGED <<activeDB, last>>

\* Connect, second half: return db.Ping(), and the answer of the handler
ConnectPing ==
  /\ last = Idle
  /\ connecting.pc = "ping"
  /\ LET ok == connecting.dsn = "good"
     IN /\ handles' = [handles EXCEPT ![clients[connecting.c].db].verified = ok]
        /\ last' = ConnectAnswer(IF ok THEN NoErr ELSE EngineErr(PingMsg))
  /\ connecting' = NoConnect
  /\ UNCHANGED <<clients, activeDB>>

NextConcurrent ==
  \/ Deliver
  \/ Ready /\ \E req \in ConnectRequests : ConnectBegin(req)
  \/ ConnectOpen
  \/ ConnectPing
  \/ Ready /\ \E req \in ListTablesRequests, e \in QueryOutcomes :
       ListTablesHandler(req, e)
  \/ Ready /\ \E req \in QueryRequests, e \in QueryOutcomes : QueryHandler(req, e)
  \/ Ready /\ \E req \in InsertRequests, e \in ExecOutcomes :
       \E o \in Orders(DOMAIN req.data) : InsertRecordHandler(req, o, e)

SpecConcurrent == Init /\ [][NextConcurrent]_vars

\* ================================================================ claims

\* the statement of the call the last method made on its handle
Stmt == last.out.call[1]
Called == last.out.call # <<>>
Sent == Called /\ Stmt.io

\* the places of the segments of one kind in a text, in order
Places(sql, kind) ==
  SelectSeq([i \in 1..Len(sql) |-> i], LAMBDA i : sql[i].k = kind)
Count(sql, seg) == Cardinality({ i \in 1..Len(sql) : sql[i] = seg })
Elems(seq) == { seq[i] : i \in 1..Len(seq) }

IdentifierOps ==
  {"GetTableData", "InsertRecord", "UpdateRecord", "DeleteRecord", "CreateTable",
   "AlterTable", "DropTable"}
DataOps == {"GetTableData", "InsertRecord", "UpdateRecord", "DeleteRecord"}

\* C1: every statement that reaches the database from GetTableData,
\* InsertRecord, UpdateRecord, DeleteRecord, CreateTable, AlterTable or
\* DropTable embeds only schema, table and column names that pass
\* IsValidIdentifier (a name that fails makes the operation fail unsent).
C1_OnlyValidatedIdentifiersSent ==
  (last.g \in IdentifierOps /\ Sent) =>
     \A i \in 1..Len(Stmt.sql) :
        Stmt.sql[i].k = "ident" => IsValidIdentifier(Stmt.sql[i].name)

\* a filter that the switch of GetTableData keeps
Supported(f) ==
  LET parts == SplitN(f, ":", 3)
  IN Len(parts) = 3 /\ ToUpper(parts[2]) \in SupportedOps
FilterValue(f) == SplitN(f, ":", 3)[3]
FilterColumn(f) == SplitN(f, ":", 3)[1]
FilterOp(f) == ToUpper(SplitN(f, ":", 3)[2])

\* the data values the caller supplied to the last data call
SuppliedValues ==
  IF last.g = "GetTableData"
  THEN { StrArg(FilterValue(f)) : f \in { x \in Elems(last.in.filters) : Supported(x) } }
       \cup { IntArg(Atoi(last.in.limit).n), IntArg(Atoi(last.in.offset).n) }
  ELSE IF last.g = "InsertRecord"
  THEN { JsonArg(last.in.data[k]) : k \in DOMAIN last.in.data }
  ELSE IF last.g = "UpdateRecord"
  THEN { JsonArg(last.in.data[k]) : k \in DOMAIN last.in.data }
       \cup { JsonArg(last.in.where[k]) : k \in DOMAIN last.in.where }
  ELSE { JsonArg(last.in.conditions[k]) : k \in DOMAIN last.in.conditions }

\* C2: in every statement built by GetTableData, InsertRecord, UpdateRecord
\* and DeleteRecord the text holds no caller-supplied data value: it is made
\* of the code's own text, identifiers, operators and placeholders; there is
\* one placeholder $n for each position n of the argument list, and every
\* supplied value (filter value, limit, offset, column value, condition value)
\* is in that list.
C2_ValuesBoundNeverInText ==
  (last.g \in DataOps /\ Called) =>
     /\ \A i \in 1..Len(Stmt.sql) : Stmt.sql[i].k \in {"kw", "ident", "op", "ph"}
     /\ { Stmt.sql[i].n : i \in Elems(Places(Stmt.sql, "ph")) } = 1..Len(Stmt.args)
     /\ Len(Places(Stmt.sql, "ph")) = Len(Stmt.args)
     /\ SuppliedValues = Elems(Stmt.args)

C2_Witness ==
  /\ last.g = "UpdateRecord" /\ Sent
  /\ Cardinality(DOMAIN last.in.data) = 2
  /\ last.in.data[last.in.dorder[1]] # last.in.data[last.in.dorder[2]]

AsciiLetters == Elems(LowerSeq) \cup Elems(UpperSeq)
AsciiDigits == Elems(DigitSeq)

\* C3: IsValidIdentifier(s) is true exactly when s is non-empty, its first
\* character is an ASCII letter or underscore and every following character is
\* an ASCII letter, a digit or underscore.
C3_IdentifierPattern ==
  last.g = "IsValidIdentifier" =>
     (last.out <=>
        /\ last.in # <<>>
        /\ last.in[1] \in AsciiLetters \cup {"_"}
        /\ \A i \in 2..Len(last.in) : last.in[i] \in AsciiLetters \cup AsciiDigits \cup {"_"})

C3_Witness ==
  /\ last.g = "IsValidIdentifier" /\ last.out
  /\ Len(last.in) = 3 /\ last.in[1] = "_" /\ last.in[3] = "7"

\* the last call was given an empty required collection
EmptyRequired ==
  \/ last.g = "UpdateRecord" /\ (DOMAIN last.in.data = {} \/ DOMAIN last.in.where = {})
  \/ last.g = "DeleteRecord" /\ (DOMAIN last.in.conditions = {} \/ last.in.table = <<>>)
  \/ last.g = "InsertRecord" /\ DOMAIN last.in.data = {}
  \/ last.g = "CreateTable" /\ last.in.columns = <<>>
  \/ last.g = "AlterTable" /\ last.in.ops = <<>>

\* C4: UpdateRecord with an empty WHERE or SET map, DeleteRecord with an empty
\* conditions map or table name, InsertRecord with an empty data map,
\* CreateTable with no column and AlterTable with no operation return a
\* validation error of their own and make no call on the handle, whatever the
\* other arguments and whatever the state of the connection.
C4_EmptyCollectionsRejected ==
  EmptyRequired =>
     /\ ~last.out.panic
     /\ last.out.err # NoErr /\ last.out.err.msg # "" /\ last.out.err.cause = ""
     /\ ~Called

C4_Witness ==
  /\ last.g = "UpdateRecord" /\ last.pre.open
  /\ DOMAIN last.in.where = {} /\ DOMAIN last.in.data # {}
  /\ last.in.schema \in Schemas /\ ~IsValidIdentifier(last.in.schema)

\* the supported filters of the last GetTableData request, in request order
Kept == SelectSeq(last.in.filters, Supported)

\* C10: the statement GetTableData builds has one WHERE condition for each
\* supported filter, in the order of the request: condition k names the
\* column and operator of the k-th supported filter, carries placeholder $k,
\* and argument k is that filter's value; the conditions are joined by AND
\* (WHERE is absent when no filter is supported); LIMIT and OFFSET carry the
\* next two placeholders and their values are the last two arguments, limit
\* first.
C10_FiltersInOrderThenLimitOffset ==
  (last.g = "GetTableData" /\ Called) =>
     LET sql == Stmt.sql
         args == Stmt.args
         ops == Places(sql, "op")
         n == Len(Kept)
     IN /\ Len(ops) = n
        /\ \A k \in 1..n :
              /\ sql[ops[k] - 2].k = "ident"
              /\ sql[ops[k] - 2].name = FilterColumn(Kept[k])
              /\ sql[ops[k]].s = FilterOp(Kept[k])
              /\ sql[ops[k] + 2] = Ph(k)
              /\ args[k] = StrArg(FilterValue(Kept[k]))
              /\ k > 1 => sql[ops[k] - 3] = Kw(" AND ")
              /\ k = 1 => sql[ops[k] - 3] = Kw(" WHERE ")
        /\ Count(sql, Kw(" AND ")) = (IF n = 0 THEN 0 ELSE n - 1)
        /\ Count(sql, Kw(" WHERE ")) = (IF n = 0 THEN 0 ELSE 1)
        /\ Len(args) = n + 2
        /\ Len(sql) >= 4
        /\ SubSeq(sql, Len(sql) - 3, Len(sql))
             = <<Kw(" LIMIT "), Ph(n + 1), Kw(" OFFSET "), Ph(n + 2)>>
        /\ args[n + 1] = IntArg(Atoi(last.in.limit).n)
        /\ args[n + 2] = IntArg(Atoi(last.in.offset).n)

C10_Witness ==
  /\ last.g = "GetTableData" /\ Sent
  /\ Len(last.in.filters) = 2 /\ Len(Kept) = 2
  /\ FilterColumn(Kept[1]) # FilterColumn(Kept[2])
  /\ last.in.orderBy # <<>>
  /\ Atoi(last.in.limit).n = 10 /\ Atoi(last.in.offset).n = 5

GuardedHandlers ==
  {"ListTablesHandler", "ListColumnsHandler", "CreateTableHandler", "AlterTableHandler",
   "DropTableHandler", "QueryHandler", "TableDataHandler", "InsertRecordHandler",
   "UpdateRecordHandler", "DeleteRecordHandler"}
NoConnectionMsgs ==
  {"No active DB connection", "Not connected to any database",
   "No active database connection"}

\* the request of the last call passed the handler's decoding: the JSON body
\* bound (four of the handlers bind before they look at the slot; the
\* binding of AlterTableRequest includes its validation tags), query
\* parameters always do
Decoded ==
  CASE last.h \in {"QueryHandler", "InsertRecordHandler", "UpdateRecordHandler",
                   "DeleteRecordHandler"} -> ~last.req.malformed
    [] last.h = "AlterTableHandler" -> AlterTableBinds(last.req)
    [] OTHER -> TRUE

\* the required fields DeleteRecordHandler checks after decoding are present
RequiredPresent ==
  last.h = "DeleteRecordHandler" =>
     (last.req.table # <<>> /\ DOMAIN last.req.conditions # {})

\* C5 as stated: while the slot is empty, every handler other than ping and
\* connect answers any request that passes its decoding with a client-error
\* or service-unavailable status that reports the missing connection, and
\* calls no gateway operation.
C5_EmptySlotReportedForDecodedRequests ==
  (last.h \in GuardedHandlers /\ activeDB = 0 /\ Decoded) =>
     /\ last.status \in {400, 503}
     /\ last.msg \in NoConnectionMsgs
     /\ last.g = ""

\* C5 amended: while the slot is empty, every handler other than ping and
\* connect answers every request with status 400 or 503 and calls no gateway
\* operation; the answer reports the missing connection for every request
\* that passes the handler's decoding and, in DeleteRecordHandler, carries
\* the required table and conditions (a body without them is answered 400
\* "Missing table or conditions" before the slot is looked at).
C5_EmptySlotAnswered ==
  (last.h \in GuardedHandlers /\ activeDB = 0) =>
     /\ last.status \in {400, 503}
     /\ last.g = "" /\ ~Called
     /\ (Decoded /\ RequiredPresent) => last.msg \in NoConnectionMsgs

C5_Witness ==
  /\ last.h = "DeleteRecordHandler" /\ activeDB = 0
  /\ Decoded /\ RequiredPresent
  /\ last.status = 503

\* C6: a connect request that does not succeed (the handle cannot be opened,
\* the liveness probe fails, the driver is unsupported) leaves the
\* active-connection slot holding what it held before the request.
C6_FailedConnectKeepsSlot ==
  [][(last'.h = "ConnectHandler" /\ last'.status # 200) => activeDB' = activeDB]_vars

\* the connect request that made client c succeeded
Succeeded(c) == clients[c].db # NilDB /\ handles[clients[c].db].verified

\* C7: when the two latest connect requests that reached the gateway both
\* succeeded, every call a handler makes afterwards is made on the handle
\* opened by the second of them, not on the handle opened by the first.
C7_LatestConnectAnswers ==
  (/\ last.h \in GuardedHandlers /\ Called
   /\ Len(clients) >= 2
   /\ Succeeded(Len(clients)) /\ Succeeded(Len(clients) - 1)) =>
     /\ Stmt.handle = clients[Len(clients)].db
     /\ Stmt.handle # clients[Len(clients) - 1].db

C7_Witness ==
  /\ last.h = "ListTablesHandler" /\ Sent
  /\ Len(clients) = 2 /\ Succeeded(1) /\ Succeeded(2)
  /\ Stmt.handle = clients[2].db

OtherOps ==
  {"ListSchemas", "ListTables", "ListColumns", "ExecuteQuery", "GetTableData",
   "InsertRecord", "UpdateRecord", "DeleteRecord", "CreateTable", "AlterTable",
   "DropTable"}

\* C8: an operation other than Connect called on a PostgresClient whose handle
\* was closed by Disconnect fails with the gateway's own 'no active
\* connection' error and makes no call on the closed handle.
C8_DisconnectedOpsRefused ==
  (last.g \in OtherOps /\ last.h = "" /\ last.pre.db # NilDB /\ ~last.pre.open) =>
     /\ last.out.err = Err("no active connection")
     /\ ~Called

\* C9: Disconnect on a client that never connected, or whose handle is
\* already closed, returns no error and changes nothing.
C9_DisconnectIdempotent ==
  [][(/\ last'.g = "Disconnect"
      /\ (clients[1].db = NilDB \/ ~handles[clients[1].db].open)) =>
        /\ last'.out = Fail(NoErr)
        /\ clients' = clients /\ handles' = handles /\ activeDB' = activeDB]_vars

C9_Witness ==
  /\ last.g = "Disconnect" /\ last.pre.db # NilDB /\ ~last.pre.open
  /\ last.out.err = NoErr


\* the operators the interface names, and a well-formed filter that uses none
\* of them (operator names are read without regard to letter case)
NamedOps ==
  { <<"=">>, <<">">>, <<"<">>, <<">","=">>, <<"<","=">>, <<"L","I","K","E">> }
OtherOperator(f) ==
  LET parts == SplitN(f, ":", 3)
  IN Len(parts) = 3 /\ ToUpper(parts[2]) \notin NamedOps
WithoutOtherOperators(filters) == SelectSeq(filters, LAMBDA f : ~OtherOperator(f))

\* the last GetTableData request passes the checks of schema, table, limit
\* and offset, on an open handle
PageRequestValid ==
  /\ last.g = "GetTableData" /\ last.pre.open
  /\ IsValidIdentifier(last.in.schema) /\ IsValidIdentifier(last.in.table)
  /\ Atoi(last.in.limit).ok /\ Atoi(last.in.limit).n >= 0
  /\ Atoi(last.in.offset).ok /\ Atoi(last.in.offset).n >= 0

\* C11: a filter whose operator is none of =, >, <, >=, <=, LIKE raises no
\* error and leaves no trace: the query is still sent, the statement and the
\* arguments are those of the same request without that filter, no condition
\* carries its operator, and when no filter is left the statement has no
\* WHERE clause and only the limit and offset arguments.
C11_UnsupportedOperatorDropped ==
  PageRequestValid =>
     LET kept == WithoutOtherOperators(last.in.filters)
         same == SelectStatement([last.in EXCEPT !.filters = kept],
                                 Atoi(last.in.limit).n, Atoi(last.in.offset).n)
     IN /\ Called /\ last.out.err.msg = ""
        /\ Stmt.sql = same.sql /\ Stmt.args = same.args
        /\ \A i \in 1..Len(Stmt.sql) :
              Stmt.sql[i].k = "op" => Stmt.sql[i].s \in NamedOps
        /\ Len(Places(Stmt.sql, "op")) <= Len(kept)
        /\ (\A i \in 1..Len(last.in.filters) : OtherOperator(last.in.filters[i])) =>
              (Count(Stmt.sql, Kw(" WHERE ")) = 0 /\ Len(Stmt.args) = 2)

C11_Witness ==
  /\ PageRequestValid /\ Sent
  /\ Len(last.in.filters) = 2
  /\ OtherOperator(last.in.filters[1]) /\ ~OtherOperator(last.in.filters[2])
  /\ Len(Places(Stmt.sql, "op")) = 1


\* the place of a piece of text that occurs once in a statement
PlaceOf(sql, seg) == CHOOSE i \in 1..Len(sql) : sql[i] = seg

\* C12: the statement of GetTableData holds ORDER BY, followed by the
\* double-quoted name, exactly when an order-by name is supplied and passes
\* identifier validation; a name that fails is left out and the query is
\* still sent without a validation error; LIMIT and OFFSET are in every
\* statement, and the parts stand in the order WHERE, ORDER BY, LIMIT, OFFSET.
C12_OrderByOnlyWhenValid ==
  /\ PageRequestValid => (Called /\ last.out.err.msg = "")
  /\ (last.g = "GetTableData" /\ Called) =>
       LET sql == Stmt.sql
           ordered == last.in.orderBy # <<>> /\ IsValidIdentifier(last.in.orderBy)
           hasWhere == Count(sql, Kw(" WHERE ")) = 1
       IN /\ Count(sql, Kw(" ORDER BY ")) = (IF ordered THEN 1 ELSE 0)
          /\ Count(sql, Kw(" WHERE ")) <= 1
          /\ Count(sql, Kw(" LIMIT ")) = 1 /\ Count(sql, Kw(" OFFSET ")) = 1
          /\ PlaceOf(sql, Kw(" LIMIT ")) < PlaceOf(sql, Kw(" OFFSET "))
          /\ hasWhere => PlaceOf(sql, Kw(" WHERE ")) < PlaceOf(sql, Kw(" LIMIT "))
          /\ ordered =>
               LET o == PlaceOf(sql, Kw(" ORDER BY "))
               IN /\ sql[o + 1].k = "ident"
                  /\ sql[o + 1].s = <<"\"">> \o last.in.orderBy \o <<"\"">>
                  /\ o + 2 = PlaceOf(sql, Kw(" LIMIT "))
                  /\ hasWhere => PlaceOf(sql, Kw(" WHERE ")) < o
                  /\ \A i \in 1..Len(sql) : sql[i].k = "op" => i < o

C12_Witness ==
  /\ PageRequestValid /\ Sent
  /\ last.in.orderBy # <<>> /\ IsValidIdentifier(last.in.orderBy)
  /\ Count(Stmt.sql, Kw(" WHERE ")) = 1 /\ Count(Stmt.sql, Kw(" ORDER BY ")) = 1


\* a text that is a decimal integer: an optional sign, then digits only
IntegerText(s) ==
  /\ s # <<>>
  /\ LET d == IF s[1] \in {"-", "+"} THEN Tail(s) ELSE s
     IN d # <<>> /\ \A i \in 1..Len(d) : d[i] \in AsciiDigits

\* C13: GetTableData returns an error and makes no call when the limit or the
\* offset is not an integer or is negative; with both integral and
\* non-negative (0 included) a request with valid schema and table is sent on
\* an open handle, and the last two arguments are the parsed limit and offset.
C13_LimitOffsetChecked ==
  last.g = "GetTableData" =>
     LET lim == last.in.limit
         off == last.in.offset
         bad == \/ ~IntegerText(lim) \/ ~IntegerText(off)
                \/ Atoi(lim).n < 0 \/ Atoi(off).n < 0
     IN /\ bad => (last.out.err # NoErr /\ ~last.out.panic /\ ~Called)
        /\ (~bad /\ Called) =>
              /\ Atoi(lim).n >= 0 /\ Atoi(off).n >= 0
              /\ Len(Stmt.args) >= 2
              /\ Stmt.args[Len(Stmt.args) - 1] = IntArg(Atoi(lim).n)
              /\ Stmt.args[Len(Stmt.args)] = IntArg(Atoi(off).n)
        /\ (/\ ~bad /\ last.pre.open
            /\ IsValidIdentifier(last.in.schema) /\ IsValidIdentifier(last.in.table)) =>
              (Called /\ last.out.err.msg = "")

C13_Witness ==
  /\ last.g = "GetTableData" /\ Sent
  /\ last.in.limit = <<"0">> /\ last.in.offset = <<"0">>
  /\ Stmt.args = <<IntArg(0), IntArg(0)>>


\* the keys of a map that fail identifier validation
InvalidKeys(m) == { k \in DOMAIN m : ~IsValidIdentifier(k) }

\* C14: when any key of the SET map or of the WHERE map of UpdateRecord, or of
\* the conditions map of DeleteRecord, fails IsValidIdentifier, the call
\* returns an error and makes no call on the handle, whatever the other keys
\* and the order in which the keys are visited; past the checks of empty
\* collections (both maps of UpdateRecord non-empty, table name of
\* DeleteRecord non-empty) the error is 'invalid column name' and names a key
\* that fails.
C14_EveryKeyValidated ==
  LET bad == IF last.g = "UpdateRecord"
             THEN InvalidKeys(last.in.data) \cup InvalidKeys(last.in.where)
             ELSE IF last.g = "DeleteRecord" THEN InvalidKeys(last.in.conditions)
             ELSE {}
      complete == IF last.g = "UpdateRecord"
                  THEN DOMAIN last.in.data # {} /\ DOMAIN last.in.where # {}
                  ELSE last.in.table # <<>>
  IN (last.g \in {"UpdateRecord", "DeleteRecord"} /\ bad # {}) =>
        /\ last.out.err # NoErr /\ ~last.out.panic /\ ~Called
        /\ complete => (/\ last.out.err.msg = "invalid column name: "
                        /\ last.out.err.arg \in bad)

C14_Witness ==
  /\ last.g = "UpdateRecord" /\ last.pre.open
  /\ InvalidKeys(last.in.data) = {}
  /\ Cardinality(DOMAIN last.in.where) = 2 /\ Cardinality(InvalidKeys(last.in.where)) = 1
  /\ IsValidIdentifier(last.in.worder[1])
  /\ last.out.err = ErrArg("invalid column name: ", last.in.worder[2])


KnownActions == {"add_column", "drop_column", "rename_column", "alter_column"}

\* an operation that carries what its action requires
ValidOperation(op) ==
  /\ op.action \in KnownActions
  /\ op.columnName # <<>>
  /\ op.action = "add_column" => op.type # <<>>
  /\ op.action = "rename_column" => op.newName # <<>>

\* the sub-clauses an operation stands for: the words that open the clause,
\* the column it names, the words that follow the column
ClausesOf(op) ==
  IF op.action = "add_column" THEN << <<"ADD COLUMN ", op.columnName, "">> >>
  ELSE IF op.action = "drop_column" THEN << <<"DROP COLUMN ", op.columnName, "">> >>
  ELSE IF op.action = "rename_column"
  THEN << <<"RENAME COLUMN ", op.columnName, " TO ">> >>
  ELSE (IF op.type # <<>> THEN << <<"ALTER COLUMN ", op.columnName, " TYPE ">> >>
        ELSE <<>>)
       \o (IF op.notNull = "true"
           THEN << <<"ALTER COLUMN ", op.columnName, " SET NOT NULL">> >>
           ELSE IF op.notNull = "false"
           THEN << <<"ALTER COLUMN ", op.columnName, " DROP NOT NULL">> >>
           ELSE <<>>)
       \o (IF op.default # <<>>
           THEN << <<"ALTER COLUMN ", op.columnName, " SET DEFAULT ">> >> ELSE <<>>)

ClausesOfAll(ops) ==
  LET F[i \in 0..Len(ops)] == IF i = 0 THEN <<>> ELSE F[i - 1] \o ClausesOf(ops[i])
  IN F[Len(ops)]

\* the sub-clauses of an ALTER TABLE text, read from left to right
ClauseWords == {"ADD COLUMN ", "DROP COLUMN ", "RENAME COLUMN ", "ALTER COLUMN "}
ClauseTails == {" TO ", " TYPE ", " SET NOT NULL", " DROP NOT NULL", " SET DEFAULT "}
ClausesIn(sql) ==
  LET at == SelectSeq([i \in 1..Len(sql) |-> i],
                      LAMBDA i : sql[i].k = "kw" /\ sql[i].kw \in ClauseWords)
  IN [k \in 1..Len(at) |->
        <<sql[at[k]].kw, sql[at[k] + 1].name,
          IF at[k] + 2 <= Len(sql) /\ sql[at[k] + 2].kw \in ClauseTails
          THEN sql[at[k] + 2].kw ELSE "">>]

\* C15: AlterTable called on an open handle with a table name and a non-empty
\* list of operations that each carry what their action requires makes
\* exactly one call, whose text is one ALTER TABLE statement closed by one
\* semicolon, and the sub-clauses of that statement are those of the
\* operations, in the order of the operations.
C15_OneStatementInOperationOrder ==
  (/\ last.g = "AlterTable" /\ last.pre.open
   /\ last.in.tableName # <<>> /\ last.in.ops # <<>>
   /\ \A i \in 1..Len(last.in.ops) : ValidOperation(last.in.ops[i])) =>
     /\ ~last.out.panic /\ last.out.err.msg = ""
     /\ Len(last.out.call) = 1 /\ Stmt.io /\ Stmt.args = <<>>
     /\ Stmt.sql[1] = Kw("ALTER TABLE ") /\ Count(Stmt.sql, Kw("ALTER TABLE ")) = 1
     /\ Stmt.sql[Len(Stmt.sql)] = Kw(";") /\ Count(Stmt.sql, Kw(";")) = 1
     /\ ClausesIn(Stmt.sql) = ClausesOfAll(last.in.ops)

C15_Witness ==
  /\ last.g = "AlterTable" /\ Sent
  /\ Len(last.in.ops) = 2
  /\ last.in.ops[1].action = "alter_column" /\ last.in.ops[2].action = "add_column"
  /\ Len(ClausesIn(Stmt.sql)) = 4


\* the places of the operations whose action is none of the four
UnknownAt(ops) == { i \in 1..Len(ops) : ops[i].action \notin KnownActions }
FirstUnknown(ops) == CHOOSE i \in UnknownAt(ops) : \A j \in UnknownAt(ops) : i <= j

\* C16: when any operation of the list has an action other than add_column,
\* drop_column, rename_column and alter_column, AlterTable returns an error
\* and makes no call on the handle, whatever the operations before it built;
\* with a table name and with every operation before the first such one
\* carrying what its action requires, the error is 'unsupported action'.
C16_UnsupportedActionNothingSent ==
  (last.g = "AlterTable" /\ UnknownAt(last.in.ops) # {}) =>
     /\ last.out.err # NoErr /\ ~last.out.panic /\ ~Called
     /\ (/\ last.in.tableName # <<>>
         /\ \A j \in 1..(FirstUnknown(last.in.ops) - 1) :
               ValidOperation(last.in.ops[j])) =>
          last.out.err.msg = "unsupported action: "

C16_Witness ==
  /\ last.g = "AlterTable" /\ last.pre.open /\ last.in.tableName # <<>>
  /\ Len(last.in.ops) = 2
  /\ ValidOperation(last.in.ops[1]) /\ last.in.ops[2].action \notin KnownActions
  /\ last.out.err.msg = "unsupported action: " /\ ~Called


\* the place of PRIMARY KEY ( in a CREATE TABLE text (past the end when absent)
KeyPlace(sql) ==
  IF Count(sql, Kw("PRIMARY KEY (")) = 1 THEN PlaceOf(sql, Kw("PRIMARY KEY ("))
  ELSE Len(sql) + 1
\* the names in the column clauses and in the PRIMARY KEY clause, left to right
ColumnNamesIn(sql) ==
  LET at == SelectSeq(Places(sql, "ident"), LAMBDA i : 2 < i /\ i < KeyPlace(sql))
  IN [k \in 1..Len(at) |-> <<sql[at[k]].name, sql[at[k] + 2]>>]
KeyNamesIn(sql) ==
  LET at == SelectSeq(Places(sql, "ident"), LAMBDA i : i > KeyPlace(sql))
  IN [k \in 1..Len(at) |-> sql[at[k]].name]

\* C17: the statement of CreateTable holds one column clause (name, then
\* type) for each column definition, in the given order; when at least one
\* column is flagged primary key, exactly one PRIMARY KEY (...) clause follows
\* the column clauses, closes the list and names exactly the flagged columns
\* in definition order; when none is flagged there is no PRIMARY KEY clause.
C17_ColumnsThenOnePrimaryKey ==
  /\ (/\ last.g = "CreateTable" /\ last.pre.open
      /\ last.in.tableName # <<>> /\ last.in.columns # <<>>) => Called
  /\ (last.g = "CreateTable" /\ Called) =>
       LET sql == Stmt.sql
           cols == last.in.columns
           flagged == SelectSeq(cols, LAMBDA c : c.primaryKey)
       IN /\ ColumnNamesIn(sql) = [i \in 1..Len(cols) |-> <<cols[i].name, Expr(cols[i].type)>>]
          /\ Count(sql, Kw("PRIMARY KEY (")) = (IF flagged = <<>> THEN 0 ELSE 1)
          /\ KeyNamesIn(sql) = [i \in 1..Len(flagged) |-> flagged[i].name]
          /\ flagged # <<>> =>
               /\ sql[KeyPlace(sql) - 1] = Kw(", ")
               /\ SubSeq(sql, Len(sql) - 1, Len(sql)) = <<Kw(")"), Kw(");")>>
               /\ \A i \in (KeyPlace(sql) + 1)..(Len(sql) - 2) :
                     sql[i].k = "ident" \/ sql[i] = Kw(", ")

C17_Witness ==
  /\ last.g = "CreateTable" /\ Sent
  /\ Len(last.in.columns) = 2
  /\ last.in.columns[1].primaryKey /\ last.in.columns[2].primaryKey
  /\ last.in.columns[1].name # last.in.columns[2].name
  /\ Len(KeyNamesIn(Stmt.sql)) = 2


\* the texts that parse as boolean true
TrueTexts == {"1", "t", "T", "TRUE", "true", "True"}

\* C18: the text of DROP TABLE holds CASCADE, once and right after the table
\* name, exactly when the cascade flag given to DropTable is true, and
\* DropTableHandler gives true exactly when the request carries a cascade
\* parameter that parses as boolean true: absent, empty, false or unparsable,
\* the drop does not cascade.
C18_CascadeOnlyWhenAsked ==
  (last.h = "DropTableHandler" /\ Called) =>
     LET asked == last.req.cascade # <<>> /\ last.req.cascade[1] \in TrueTexts
     IN /\ last.in.cascade = asked
        /\ Count(Stmt.sql, Kw(" CASCADE")) = (IF last.in.cascade THEN 1 ELSE 0)
        /\ Stmt.sql = <<Kw("DROP TABLE "), Quoted(last.req.tableName)>>
                      \o (IF asked THEN <<Kw(" CASCADE")>> ELSE <<>>) \o <<Kw(";")>>

C18_Witness ==
  /\ last.h = "DropTableHandler" /\ Sent
  /\ last.req.cascade = <<"true">> /\ last.in.cascade
  /\ Count(Stmt.sql, Kw(" CASCADE")) = 1


\* a statement that begins with SELECT once leading blanks are skipped, the
\* letters taken in either case
SelectLetters ==
  << {"s","S"}, {"e","E"}, {"l","L"}, {"e","E"}, {"c","C"}, {"t","T"} >>
BeginsWithSelect(sql) ==
  \E b \in 0..Len(sql) :
     /\ \A i \in 1..b : sql[i] \in {" ", "\n"}
     /\ Len(sql) >= b + 6
     /\ \A k \in 1..6 : sql[b + k] \in SelectLetters[k]

\* C19: ExecuteQuery sends the caller's statement as it is, through Query
\* (the read path) exactly when the statement begins with SELECT, letter case
\* and leading blanks ignored, and through Exec (the write path) otherwise,
\* a statement that embeds a SELECT after another keyword included; a
\* statement sent through Exec that the engine accepts returns no columns,
\* no rows and no error.
C19_ReadPathOnlyForSelect ==
  (last.g = "ExecuteQuery" /\ Called) =>
     /\ Stmt.sql = <<SqlText(last.in.sql)>> /\ Stmt.args = <<>>
     /\ Stmt.via = (IF BeginsWithSelect(last.in.sql) THEN "query" ELSE "exec")
     /\ Stmt.via = "exec" =>
          /\ last.out.val = NoVal
          /\ last.out.err \in {NoErr, EngineErr(EngineMsg)}

C19_Witness ==
  /\ last.g = "ExecuteQuery" /\ Sent
  /\ Len(last.in.sql) > 6 /\ SubSeq(last.in.sql, 1, 4) = <<"w","i","t","h">>
  /\ Stmt.via = "exec" /\ last.out.err = NoErr /\ last.out.val = NoVal


\* C20: every result set that ExecuteQuery or GetTableData returns without
\* error has, in each of its rows, exactly as many entries as the column list
\* has names, entry i being the value of column i, for any number of rows,
\* zero included.
C20_RowsMatchColumns ==
  (/\ last.g \in {"ExecuteQuery", "GetTableData"}
   /\ last.out.err = NoErr /\ ~last.out.panic) =>
     LET columns == last.out.val.columns
         rows == last.out.val.rows
     IN \A n \in 1..Len(rows) :
           /\ Len(rows[n]) = Len(columns)
           /\ \A i \in 1..Len(columns) : rows[n][i].col = columns[i]

C20_Witness ==
  /\ last.g = "GetTableData" /\ Sent /\ last.out.err = NoErr
  /\ Len(last.out.val.columns) = 1 /\ Len(last.out.val.rows) = 3


\* the errors the engine and the driver layer produce
EngineErrors == { EngineErr(EngineMsg), EngineErr(ScanMsg) }

\* C21: when the database engine rejects or fails a statement, every gateway
\* operation returns the engine's error with its message unchanged: not
\* wrapped, prefixed or replaced by the gateway.
C21_EngineErrorUnchanged ==
  (last.g # "" /\ Sent /\ ~last.out.panic /\ last.out.err # NoErr) =>
     last.out.err \in EngineErrors


\* C22: every gateway operation ends in either a success value or an error,
\* never a mix: a failed ExecuteQuery or GetTableData, a scan failure after
\* rows were read included, returns no columns and no rows, and a failed
\* UpdateRecord or DeleteRecord returns the row count 0 with the error.
C22_ErrorOrValue ==
  (last.g # "" /\ ~last.out.panic /\ last.out.err # NoErr) =>
     /\ last.out.val = NoVal
     /\ last.g \in {"ExecuteQuery", "GetTableData"} =>
          last.out.val.columns = <<>> /\ last.out.val.rows = <<>>
     /\ last.g \in {"UpdateRecord", "DeleteRecord"} => last.out.val.count = 0

\* a scan failed on a statement the engine had accepted, one row being read
C22_Witness ==
  /\ last.g = "GetTableData" /\ Sent /\ last.out.err = EngineErr(ScanMsg)
  /\ Len(ScanLoop(ResultColumns, ResultRows, "scanfail").results) = 1
  /\ last.out.val.rows = <<>>


\* the last handler called the gateway and a check of the gateway itself
\* rejected the request: an error of the gateway's own, nothing handed to the
\* handle
ValidationRejected ==
  /\ last.h # "" /\ last.g # "" /\ ~last.out.panic
  /\ last.out.err # NoErr /\ last.out.err.cause = "" /\ ~Called

\* C23: a request that a gateway validation check rejects (invalid identifier,
\* no data to insert, missing WHERE, unsupported action, invalid limit or
\* offset) is answered with a 4xx status, and only failures reported by the
\* database engine are answered with a 5xx status (the 500 that gin's Recovery
\* gives after a panic is left aside).
C23_ValidationIsClientError ==
  /\ ValidationRejected => last.status \in 400..499
  /\ (last.h # "" /\ last.status \in 500..599 /\ ~last.out.panic) =>
        last.out.err.cause # ""


\* C24: the read-table-rows handler forwards the caller's filter list and
\* order-by column, together with schema, table, limit and offset, to
\* GetTableData, so that filters and ordering given in a request take effect
\* in the statement that is executed.
C24_FiltersAndOrderForwarded ==
  (last.h = "TableDataHandler" /\ last.g = "GetTableData") =>
     /\ last.in.schema = DefaultQuery(last.req.schema, PublicSchema)
     /\ last.in.table = Query(last.req.table)
     /\ last.in.limit = DefaultQuery(last.req.limit, <<"1","0","0">>)
     /\ last.in.offset = DefaultQuery(last.req.offset, <<"0">>)
     /\ last.in.orderBy = Query(last.req.orderBy)
     /\ last.in.filters = last.req.filters
     /\ Sent =>
          /\ (IsValidIdentifier(Query(last.req.orderBy)) =>
                Count(Stmt.sql, Kw(" ORDER BY ")) = 1)
          /\ ((\E i \in 1..Len(last.req.filters) : Supported(last.req.filters[i])) =>
                Count(Stmt.sql, Kw(" WHERE ")) = 1)


BelongsTo(k, p) ==
  LET sql == Stmt.sql
  IN IF last.g = "GetTableData"
     THEN IF sql[p - 1] = Kw(" LIMIT ") THEN IntArg(Atoi(last.in.limit).n)
          ELSE IF sql[p - 1] = Kw(" OFFSET ") THEN IntArg(Atoi(last.in.offset).n)
          ELSE LET f == CHOOSE i \in 1..Len(Kept) :
                          Cardinality({ j \in 1..i : FilterColumn(Kept[j]) = sql[p - 4].name
                                          /\ FilterOp(Kept[j]) = sql[p - 2].s })
                          = Cardinality({ q \in 1..p : sql[q].k = "ph"
                                          /\ sql[q - 4].name = sql[p - 4].name
                                          /\ sql[q - 2].s = sql[p - 2].s })
                          /\ FilterColumn(Kept[i]) = sql[p - 4].name
                          /\ FilterOp(Kept[i]) = sql[p - 2].s
               IN StrArg(FilterValue(Kept[f]))
     ELSE IF last.g = "InsertRecord"
     THEN JsonArg(last.in.data[sql[Places(sql, "ident")[k + 2]].name])
     ELSE IF last.g = "UpdateRecord"
     THEN IF p < PlaceOf(sql, Kw(" WHERE "))
          THEN JsonArg(last.in.data[sql[p - 2].name])
          ELSE JsonArg(last.in.where[sql[p - 2].name])
     ELSE JsonArg(last.in.conditions[sql[p - 2].name])

\* C26: in every statement sent by GetTableData, InsertRecord, UpdateRecord
\* and DeleteRecord the placeholders are numbered exactly $1..$n, n the length
\* of the argument list, and the argument at position i is the value that
\* belongs to the column or clause carrying $i; this also when filters are
\* skipped, and for UPDATE with all SET values first and the WHERE values
\* after them.
C26_PlaceholdersMatchArguments ==
  (last.g \in DataOps /\ Called) =>
     LET sql == Stmt.sql
         args == Stmt.args
         phs == Places(sql, "ph")
     IN /\ Len(phs) = Len(args)
        /\ \A k \in 1..Len(phs) :
              /\ sql[phs[k]].n = k
              /\ args[k] = BelongsTo(k, phs[k])
        /\ last.g = "UpdateRecord" =>
              \A k \in 1..Len(phs) :
                 (phs[k] < PlaceOf(sql, Kw(" WHERE "))) <=> (k <= Len(last.in.dorder))

\* an UPDATE of two columns under two conditions was sent, the values of the
\* columns differing and those of the conditions too
C26_Witness ==
  /\ last.g = "UpdateRecord" /\ Sent /\ Len(Stmt.args) = 4
  /\ Stmt.args[1] # Stmt.args[2] /\ Stmt.args[3] # Stmt.args[4]


\* the places of the alter_column operations of a list
AlterColumnAt(ops) == { i \in 1..Len(ops) : ops[i].action = "alter_column" }

\* the words after the column in the ALTER COLUMN sub-clauses of a text, from
\* left to right, and where each kind stands in the order TYPE, SET or DROP
\* NOT NULL, SET DEFAULT
AlterColumnTails(sql) ==
  LET cl == SelectSeq(ClausesIn(sql), LAMBDA c : c[1] = "ALTER COLUMN ")
  IN [k \in 1..Len(cl) |-> cl[k][3]]
TailRank(t) ==
  IF t = " TYPE " THEN 1
  ELSE IF t \in {" SET NOT NULL", " DROP NOT NULL"} THEN 2
  ELSE IF t = " SET DEFAULT " THEN 3 ELSE 0

\* C27: an alter_column operation yields a TYPE sub-clause iff a new type is
\* present, a SET NOT NULL sub-clause iff the nullability flag is present and
\* true, a DROP NOT NULL sub-clause iff it is present and false, and a SET
\* DEFAULT sub-clause iff a new default is present, in that order and with no
\* other sub-clause for that operation (read off statements whose operation
\* list holds one alter_column operation).
C27_AlterColumnSubClauses ==
  (last.g = "AlterTable" /\ Called /\ Cardinality(AlterColumnAt(last.in.ops)) = 1) =>
     LET op == last.in.ops[CHOOSE i \in AlterColumnAt(last.in.ops) : TRUE]
         sql == Stmt.sql
         tails == AlterColumnTails(sql)
     IN /\ (" TYPE " \in Elems(tails)) <=> (op.type # <<>>)
        /\ (" SET NOT NULL" \in Elems(tails)) <=> (op.notNull = "true")
        /\ (" DROP NOT NULL" \in Elems(tails)) <=> (op.notNull = "false")
        /\ (" SET DEFAULT " \in Elems(tails)) <=> (op.default # <<>>)
        /\ \A k \in 1..Len(tails) :
              /\ TailRank(tails[k]) # 0
              /\ k > 1 => TailRank(tails[k - 1]) < TailRank(tails[k])
        /\ \A p \in 1..Len(sql) :
              (sql[p] = Kw("ALTER COLUMN ")) =>
                 /\ sql[p + 1] = Quoted(op.columnName)
                 /\ sql[p + 2] = Kw(" TYPE ") => sql[p + 3] = Expr(op.type)
                 /\ sql[p + 2] = Kw(" SET DEFAULT ") => sql[p + 3] = Expr(op.default)

\* an alter_column with a type, the flag true and a default was sent, giving
\* three sub-clauses; so was one with the flag absent
C27_Witness ==
  /\ last.g = "AlterTable" /\ Sent /\ Len(last.in.ops) = 1
  /\ last.in.ops[1].action = "alter_column" /\ last.in.ops[1].notNull = "true"
  /\ AlterColumnTails(Stmt.sql) = <<" TYPE ", " SET NOT NULL", " SET DEFAULT ">>


\* C28: under any interleaving of a connect request with other requests, no
\* request executes a gateway operation on a client whose Connect has not
\* completed successfully: the client a handler other than the connect
\* handler calls is not the one of a connect request still under way, and its
\* handle is open and verified.
C28_OnlyConnectedClientsServe ==
  (last.h \notin {"", "ConnectHandler"} /\ last.g # "") =>
     /\ last.c # connecting.c
     /\ last.pre.db # NilDB /\ last.pre.open /\ last.pre.verified


\* C29: every ALTER TABLE statement that AlterTable hands to the database
\* contains at least one sub-clause: a request whose operations produce no
\* sub-clause at all (a single alter_column with no type, no nullability flag
\* and no default) is rejected instead of being sent.
C29_NoEmptyAlterStatement ==
  (last.g = "AlterTable" /\ Called) => Len(ClausesIn(Stmt.sql)) >= 1


\* the database handles that are open
OpenHandles == { h \in 1..Len(handles) : handles[h].open }

\* C30: at most one database handle is open at any time: when a Connect
\* supersedes an earlier connection (a new client replacing the slot, or
\* Connect called again on the same client) the earlier handle is closed.
C30_AtMostOneOpenHandle == Cardinality(OpenHandles) <= 1

====
